---- MODULE Spec2Model ----
(***************************************************************************)
(* Writing-assistant backend: the expiring in-memory cache, the session,   *)
(* /predict and /next request handlers and the model-call wrappers.        *)
(*                                                                         *)
(* JavaScript values are tuples.  A string is the tuple of its characters  *)
(* (a literal the handlers only compare as a whole, such as a mode or a    *)
(* uuid, is a one-element tuple holding that literal).  undefined and null *)
(* are the one-element tuples Undefined and Null, whose element is no      *)
(* character.                                                              *)
(*                                                                         *)
(* A handler runs atomically up to its await of the model call and again   *)
(* from the resolution of that call to its reply, as on Node's event loop: *)
(* each handler is a Begin action and a Complete action, and requests      *)
(* whose model call is pending are held in inflight.                       *)
(*                                                                         *)
(* Spec is the server under overlapping requests and a moving clock.       *)
(* SpecSeq is the server answering one request at a time at a fixed clock, *)
(* for every shape of request body.  SpecCache is the cache alone, its     *)
(* methods called in any order under a clock that is advanced by hand.     *)
(***************************************************************************)
EXTENDS Integers, Sequences, FiniteSets, TLC

VARIABLES
    store,      \* InMemoryCache.store: key -> [value, expiresAt]
    now,        \* Date.now(), in milliseconds
    issued,     \* number of uuids uuidv4() has returned
    calls,      \* number of model calls made so far
    inflight,   \* call number -> handler suspended at its await of that call
    ev,         \* the step just taken: request, reply and model call
    created,    \* history: session id -> when and with what context it was stored
    failed,     \* history: prediction key -> the latest store of a throwing call's result
    lastSet     \* history under SpecCache: key -> the latest set not followed by a delete

vars == <<store, now, issued, calls, inflight, ev, created, failed, lastSet>>

-----------------------------------------------------------------------------
(* Bounds of the model *)

MaxCalls == 2
MaxClock == 2000

-----------------------------------------------------------------------------
(* JavaScript values and string primitives *)

Undefined == <<"undefined">>
Null == <<"null">>

IsNullish(v) == v = Undefined \/ v = Null

\* x ?? d
Coalesce(v, d) == IF IsNullish(v) THEN d ELSE v

\* !x for a string-or-nullish value
Falsy(v) == IsNullish(v) \/ v = <<>>

WhiteSpace == {" ", "\n"}
TrailingPunctuation == {".", ",", "!", "?"}

RECURSIVE TrimStart(_)
TrimStart(s) ==
    IF s # <<>> /\ Head(s) \in WhiteSpace THEN TrimStart(Tail(s)) ELSE s

RECURSIVE TrimEnd(_)
TrimEnd(s) ==
    IF s # <<>> /\ s[Len(s)] \in WhiteSpace
    THEN TrimEnd(SubSeq(s, 1, Len(s) - 1))
    ELSE s

\* String.prototype.trim
Trim(s) == TrimEnd(TrimStart(s))

\* s.replace(/[.,!?]+$/, ""): the maximal trailing run is removed
RECURSIVE StripTrailingRun(_)
StripTrailingRun(s) ==
    IF s # <<>> /\ s[Len(s)] \in TrailingPunctuation
    THEN StripTrailingRun(SubSeq(s, 1, Len(s) - 1))
    ELSE s

\* s.replace(/[.,!?]$/, ""): a single trailing character is removed
StripTrailingOne(s) ==
    IF s # <<>> /\ s[Len(s)] \in TrailingPunctuation
    THEN SubSeq(s, 1, Len(s) - 1)
    ELSE s

\* s.slice(-n)
SliceLast(s, n) == IF Len(s) <= n THEN s ELSE SubSeq(s, Len(s) - n + 1, Len(s))

\* parts.join(sep)
RECURSIVE Join(_, _)
Join(parts, sep) ==
    IF parts = <<>> THEN <<>>
    ELSE IF Len(parts) = 1 THEN parts[1]
    ELSE parts[1] \o sep \o Join(Tail(parts), sep)

-----------------------------------------------------------------------------
(* utils/textUtils.ts, utils/hash.ts *)

MAX_PRECEDING_TEXT == 500

\* the first MAX_PRECEDING_TEXT characters kept instead of the last
truncatePrecedingTextHead(text) ==
    IF Len(text) <= MAX_PRECEDING_TEXT THEN text
    ELSE SubSeq(text, 1, MAX_PRECEDING_TEXT)

truncatePrecedingText(text) ==
    IF Len(text) <= MAX_PRECEDING_TEXT THEN text
    ELSE SubSeq(text, Len(text) - MAX_PRECEDING_TEXT + 1, Len(text))

\* the punctuation stripped before the trimming
postProcessSuggestionStripFirst(raw) == Trim(StripTrailingRun(raw))

postProcessSuggestion(raw) == StripTrailingRun(Trim(raw))

\* SHA-256 is taken as injective on the joined input and the 16-character
\* prefix of its digest as identifying it: the key is the joined input.
hashKey(parts) == Join(parts, <<"|">>)

-----------------------------------------------------------------------------
(* services/cache.ts *)

\* a lifetime of ten minutes, in seconds
TenMinutes == 60 * 10
TTL_SESSION == 60 * 60 * 24
TTL_PREDICTION == 60 * 5

\* a set that leaves an entry that is already there alone
CacheSetKeepsFirst(s, key, value, ttlSeconds, t) ==
    [k \in DOMAIN s \cup {key} |->
        IF k = key /\ k \notin DOMAIN s
        THEN [value |-> value, expiresAt |-> t + ttlSeconds * 1000]
        ELSE s[k]]

\* a set that takes ttlSeconds for milliseconds
CacheSetMillis(s, key, value, ttlSeconds, t) ==
    [k \in DOMAIN s \cup {key} |->
        IF k = key THEN [value |-> value, expiresAt |-> t + ttlSeconds]
        ELSE s[k]]

\* cache.set(key, value, ttlSeconds) at clock t
CacheSet(s, key, value, ttlSeconds, t) ==
    [k \in DOMAIN s \cup {key} |->
        IF k = key THEN [value |-> value, expiresAt |-> t + ttlSeconds * 1000]
        ELSE s[k]]

\* a get that already treats an entry as expired at its expiry instant
CacheHitBefore(s, key, t) == key \in DOMAIN s /\ ~(t >= s[key].expiresAt)

\* cache.get(key) at clock t returns a value (not null)
CacheHit(s, key, t) == key \in DOMAIN s /\ ~(t > s[key].expiresAt)

\* a get that sweeps every expired entry out of the store
CacheAfterGetSweep(s, key, t) ==
    [k \in {j \in DOMAIN s : ~(t > s[j].expiresAt)} |-> s[k]]

\* the store after cache.get(key) at clock t: an expired entry is deleted
CacheAfterGet(s, key, t) ==
    IF key \in DOMAIN s /\ t > s[key].expiresAt
    THEN [k \in DOMAIN s \ {key} |-> s[k]]
    ELSE s

\* a get for which an entry is expired from its expiry instant on
CacheGetExpiredAtInstant(s, key, t) ==
    IF key \in DOMAIN s /\ t < s[key].expiresAt THEN s[key].value ELSE Null

\* what cache.get(key) at clock t returns
CacheGet(s, key, t) == IF CacheHit(s, key, t) THEN s[key].value ELSE Null

\* cache.delete(key)
CacheDelete(s, key) == [k \in DOMAIN s \ {key} |-> s[k]]

SessionKey(sessionId) == <<"session:", sessionId>>
PredictKey(h) == <<"predict:", h>>
\* a /next key under the prefix of /predict
NextKeyAsPredict(h) == <<"predict:", h>>

NextKey(h) == <<"next:", h>>

-----------------------------------------------------------------------------
(* services/llm.ts: the model call and its wrappers *)

\* What client.messages.create(...) does: it throws, or it resolves to a
\* message whose content is a sequence of blocks.
Throws == [throws |-> TRUE, content |-> <<>>]
Resolves(content) == [throws |-> FALSE, content |-> content]
TextBlock(text) == [type |-> "text", text |-> text]
ToolUseBlock == [type |-> "tool_use", text |-> <<>>]

\* How the promise an async function returns settles
Fulfilled(value) == [rejected |-> FALSE, value |-> value]
Rejected == [rejected |-> TRUE, value |-> <<>>]

RECURSIVE JoinTextBlocks(_)
JoinTextBlocks(content) ==
    IF content = <<>> THEN <<>>
    ELSE (IF Head(content).type = "text" THEN Head(content).text ELSE <<>>)
            \o JoinTextBlocks(Tail(content))

\* the same body without the try/catch
Uncaught(result, sentinel) == result
\* try { ... } catch { return sentinel }, around a body that may throw
Caught(result, sentinel) ==
    IF result.rejected THEN Fulfilled(sentinel) ELSE result

\* message.content[0], when it is a text block
FirstIsText(content) == content # <<>> /\ content[1].type = "text"

\* deriveThesis without its catch
deriveThesisUncaught(outcome) ==
    IF outcome.throws THEN Rejected
    ELSE Fulfilled(Trim(JoinTextBlocks(outcome.content)))
deriveThesis(outcome) ==
    IF outcome.throws THEN Fulfilled(<<>>)
    ELSE Fulfilled(Trim(JoinTextBlocks(outcome.content)))

getWordSuggestion(outcome) ==
    Caught(IF outcome.throws THEN Rejected
           ELSE IF ~FirstIsText(outcome.content) THEN Fulfilled(<<>>)
           ELSE Fulfilled(postProcessSuggestion(outcome.content[1].text)),
           <<>>)

getBridgeSuggestion(outcome) ==
    Caught(IF outcome.throws THEN Rejected
           ELSE IF ~FirstIsText(outcome.content) THEN Fulfilled(<<>>)
           ELSE Fulfilled(postProcessSuggestion(outcome.content[1].text)),
           <<>>)

\* text.indexOf(c): 0 when c does not occur, else the first position (1-based)
IndexOf(s, c) ==
    IF \E i \in 1..Len(s) : s[i] = c
    THEN CHOOSE i \in 1..Len(s) : s[i] = c /\ \A j \in 1..(i - 1) : s[j] # c
    ELSE 0

\* the first position taken for the last
lastIndexOfFirst(s, c) ==
    IF \E i \in 1..Len(s) : s[i] = c
    THEN CHOOSE i \in 1..Len(s) : s[i] = c /\ \A j \in 1..(i - 1) : s[j] # c
    ELSE 0

\* text.lastIndexOf(c): 0 when c does not occur, else the last position
LastIndexOf(s, c) ==
    IF \E i \in 1..Len(s) : s[i] = c
    THEN CHOOSE i \in 1..Len(s) : s[i] = c /\ \A j \in (i + 1)..Len(s) : s[j] # c
    ELSE 0

\* The model's JSON text is a tuple of tokens: the braces, and one token for
\* the members between them, naming an object of JsonMembers.  NotAString is
\* a member value that is no string (a number, an object).
NotAString == <<"number">>
JsonMembers ==
    [both    |-> [phrase |-> <<"g", "o", ".">>, angle |-> <<" ", "x", ".">>],
     runs    |-> [phrase |-> <<"g", "o", "!", "?">>, angle |-> <<"x">>],
     number  |-> [phrase |-> NotAString, angle |-> <<"x">>],
     partial |-> [phrase |-> Null, angle |-> <<"x">>]]

\* JSON.parse(slice) does not throw
JsonValid(slice) ==
    \/ slice = <<"{", "}">>
    \/ Len(slice) = 3 /\ slice[1] = "{" /\ slice[3] = "}"
        /\ slice[2] \in DOMAIN JsonMembers

\* JSON.parse(slice), for a valid slice
JsonParse(slice) ==
    IF Len(slice) = 3 THEN JsonMembers[slice[2]]
    ELSE [phrase |-> Undefined, angle |-> Undefined]

EmptyNext == [phrase |-> <<>>, angle |-> <<>>]

getNextSuggestion(outcome) ==
    Caught(
        IF outcome.throws THEN Rejected
        ELSE IF ~FirstIsText(outcome.content) THEN Fulfilled(EmptyNext)
        ELSE LET text == outcome.content[1].text
                 start == IndexOf(text, "{")
                 end == LastIndexOf(text, "}")
                 slice == SubSeq(text, start, end)
             IN  IF start = 0 \/ end = 0 THEN Fulfilled(EmptyNext)
                 ELSE IF ~JsonValid(slice) THEN Rejected  \* JSON.parse throws
                 ELSE LET parsed == JsonParse(slice)
                      IN  IF parsed.phrase = NotAString \/ parsed.angle = NotAString
                          THEN Rejected       \* .trim is not a function
                          ELSE Fulfilled(
                                [phrase |-> IF IsNullish(parsed.phrase) THEN <<>>
                                            ELSE StripTrailingOne(Trim(parsed.phrase)),
                                 angle |-> IF IsNullish(parsed.angle) THEN <<>>
                                           ELSE Trim(parsed.angle)]),
        EmptyNext)

-----------------------------------------------------------------------------
(* services/llm.ts: promptBuilder.  A prompt string is the tuple of its     *)
(* segments: the template's own text, and the values interpolated into it.  *)

Fixed(text) == [fixed |-> text]
Slot(name, value) == [slot |-> name, value |-> value]

Start == <<"start">>
Establish == <<"establish">>
Continue == <<"continue">>
Opening == <<"opening">>
Middle == <<"middle">>
Closing == <<"closing">>

\* thesis ? `The article's core argument: "${thesis}"` : ''
thesisLine(thesis) ==
    IF Falsy(thesis) THEN <<>>
    ELSE <<Fixed("The article's core argument: \""), Slot("thesis", thesis),
           Fixed("\"")>>

\* the text every template opens its task with (the source's long dashes
\* are written - here and below)
Guidance ==
    "\n\nBefore generating your suggestion, identify which specific part of the outline the writer is currently working on based on their preceding text. Use that section to guide your suggestion - not the outline in general.\n\n"

ReturnOnly ==
    "\n\nReturn ONLY the words. No punctuation at the end. No explanation. No preamble.\n"

\* the first sentence of each template's system prompt
Intro ==
    [start |-> "You are a writing assistant helping a writer who is staring at a blank page.",
     establish |-> "You are a writing assistant helping a writer establish their opening.",
     opening |-> "You are a writing assistant helping a writer build momentum in their opening paragraph.",
     closing |-> "You are a writing assistant helping a writer bring their piece to a close.",
     middle |-> "You are a writing assistant helping a writer maintain flow through the body of their piece."]

\* what each template asks for, after the guidance
Task(template, tone) ==
    CASE template = "start" ->
            <<Fixed("Suggest the first 5-7 words of an opening sentence that:\n- Hooks the reader immediately\n- Feels natural in a "),
              Slot("tone", tone),
              Fixed(" voice\n- Sets up the premise described in the outline"),
              Fixed(ReturnOnly),
              Fixed("If you cannot generate a helpful suggestion, return an empty string.")>>
      [] template = "establish" ->
            <<Fixed("Suggest the next 5-7 words that:\n- Feel like a natural extension of what they started\n- Stay consistent with their opening voice\n- Move the thought forward without completing it"),
              Fixed(ReturnOnly),
              Fixed("If the thought already feels complete, return an empty string.")>>
      [] template = "opening" ->
            <<Fixed("Suggest the next 5-7 words that:\n- Maintain the voice and energy they've established\n- Help develop or support the opening premise\n- Bridge naturally to their next thought without finishing the sentence"),
              Fixed(ReturnOnly),
              Fixed("If the sentence already feels complete, return an empty string.")>>
      [] template = "closing" ->
            <<Fixed("Suggest the next 5-7 words that:\n- Feel like the piece is moving toward resolution\n- Carry the same tone without introducing new ideas\n- Help the writer land the piece cleanly"),
              Fixed(ReturnOnly),
              Fixed("If the sentence already feels complete, return an empty string.")>>
      [] OTHER ->
            <<Fixed("Suggest the next 5-7 words that:\n- Keep the argument or narrative moving forward\n- Feel consistent with the tone and style already established\n- Act as a bridge - not a conclusion"),
              Fixed(ReturnOnly),
              Fixed("If the sentence already feels complete, return an empty string.")>>

\* a line break of a template, a segment of its own
LineBreak == Fixed("\n")

\* ${thesisLine ? '\n' + thesisLine : ''}
thesisBlock(thesis) ==
    IF thesisLine(thesis) # <<>> THEN <<LineBreak>> \o thesisLine(thesis)
    ELSE <<>>

\* the system prompt of a template
SystemPrompt(template, outline, style, tone, thesis) ==
    <<Fixed(Intro[template]), LineBreak, LineBreak,
      Fixed("Their piece is about: \""), Slot("outline", outline), Fixed("\""),
      LineBreak>>
    \o thesisBlock(thesis)
    \o <<LineBreak, Fixed("Style: "), Slot("style", style),
         LineBreak, Fixed("Tone: "), Slot("tone", tone), Fixed(Guidance)>>
    \o Task(template, tone)

\* the user message of a template
UserPrompt(template, precedingText) ==
    IF template = "start"
    THEN <<Fixed("Give me the first words to start this piece.")>>
    ELSE <<Fixed("Continue this naturally: \""),
           Slot("precedingText", precedingText), Fixed("\"")>>

\* a chain that looks at the position before the stage
selectTemplatePositionFirst(stage, position) ==
    IF position = Opening THEN "opening"
    ELSE IF position = Closing THEN "closing"
    ELSE IF stage = Start THEN "start"
    ELSE IF stage = Establish THEN "establish"
    ELSE "middle"

\* the chain of ifs of promptBuilder: the template it returns
selectTemplate(stage, position) ==
    IF stage = Start THEN "start"
    ELSE IF stage = Establish THEN "establish"
    ELSE IF position = Opening THEN "opening"
    ELSE IF position = Closing THEN "closing"
    ELSE "middle"

promptBuilder(args) ==
    LET template == selectTemplate(args.stage, args.position)
    IN  [system |-> SystemPrompt(template, args.outline, args.style, args.tone,
                                 args.thesis),
         user |-> UserPrompt(template, args.precedingText)]

\* the stage getBridgeSuggestion builds its prompt for when its caller passes
\* precedingText, context and position only
DefaultStage == Continue

\* context.thesis of a SessionContext, whose thesis is optional
ThesisOf(context) ==
    IF "thesis" \in DOMAIN context THEN context.thesis ELSE Undefined

\* the system and user prompt of getNextSuggestion
nextPrompt(lastParagraph, context, currentSection) ==
    LET currentSectionLine ==
            IF Falsy(currentSection) THEN <<>>
            ELSE <<LineBreak,
                   Fixed("The writer just finished working on this section of the outline:"),
                   LineBreak, Fixed("\""), Slot("currentSection", currentSection),
                   Fixed("\""), LineBreak>>
        afterLine ==
            IF Falsy(currentSection)
            THEN <<LineBreak,
                   Fixed("Based on the outline, identify what logically comes next after what they just wrote."),
                   LineBreak, Fixed("That is the territory for your suggestion."),
                   LineBreak>>
            ELSE <<LineBreak,
                   Fixed("Based on the outline, identify what logically comes AFTER \""),
                   Slot("currentSection", currentSection), Fixed("\"."),
                   LineBreak, Fixed("That is the territory for your suggestion."),
                   LineBreak>>
    IN  [system |->
            <<Fixed("You are a writing assistant helping a writer transition to their next section."),
              LineBreak, LineBreak,
              Fixed("Their full outline: \""), Slot("outline", context.outline),
              Fixed("\""), LineBreak>>
            \o (IF Falsy(ThesisOf(context)) THEN <<>>
                ELSE <<LineBreak, Fixed("The article's core argument: \""),
                       Slot("thesis", ThesisOf(context)), Fixed("\"")>>)
            \o <<LineBreak, Fixed("Style: "), Slot("style", context.style),
                 LineBreak, Fixed("Tone: "), Slot("tone", context.tone), LineBreak>>
            \o currentSectionLine
            \o <<LineBreak, Fixed("Their last paragraph:"), LineBreak,
                 Fixed("\""), Slot("lastParagraph", lastParagraph), Fixed("\""),
                 LineBreak>>
            \o afterLine
            \o <<LineBreak,
                 Fixed("Return a JSON object with exactly two fields:\n- \"phrase\": the first 5-7 words to open the next section. Natural, "),
                 Slot("tone", context.tone),
                 Fixed(" voice. No punctuation at the end.\n- \"angle\": one concrete sentence describing the specific topic or argument to develop next. Reference actual concepts from the outline - be specific, not generic.\n\nReturn ONLY valid JSON. No explanation. No preamble. No markdown backticks.\nIf you cannot determine a helpful next section, return: {\"phrase\": \"\", \"angle\": \"\"}")>>,
         user |-> <<Fixed("What should I write next?")>>]

\* the prompt getBridgeSuggestion sends for a call
bridgePrompt(call) ==
    promptBuilder([outline |-> call.context.outline, style |-> call.context.style,
                   tone |-> call.context.tone, thesis |-> ThesisOf(call.context),
                   precedingText |-> call.text, stage |-> call.stage,
                   position |-> call.position])

-----------------------------------------------------------------------------
(* lib/writingStage.ts: detectPosition and detectStage, as the repository   *)
(* describes them                                                           *)

\* text[lo..hi] cut at every whitespace character, halving the range
RECURSIVE SplitEach(_, _, _)
SplitEach(text, lo, hi) ==
    IF lo > hi THEN << <<>> >>
    ELSE IF lo = hi
    THEN IF text[lo] \in WhiteSpace THEN << <<>>, <<>> >> ELSE << <<text[lo]>> >>
    ELSE LET mid == (lo + hi) \div 2
             left == SplitEach(text, lo, mid)
             right == SplitEach(text, mid + 1, hi)
         IN  SubSeq(left, 1, Len(left) - 1)
             \o << left[Len(left)] \o right[1] >>
             \o Tail(right)

\* text.split(/\s+/): the pieces between the runs of whitespace, with an
\* empty first piece when the text starts with whitespace and an empty last
\* piece when it ends with it; the empty pieces inside a run are no pieces
SplitWhiteSpace(text) ==
    LET each == SplitEach(text, 1, Len(text))
    IN  IF Len(each) = 1 THEN each
        ELSE << each[1] >>
             \o SelectSeq(SubSeq(each, 2, Len(each) - 1),
                          LAMBDA piece : piece # <<>>)
             \o << each[Len(each)] >>

\* text.trim().split(/\s+/).filter(Boolean).length
wordCount(text) ==
    Len(SelectSeq(SplitWhiteSpace(Trim(text)), LAMBDA piece : piece # <<>>))

\* the middle taken to end at 300 words, 300 included
detectPositionInclusive(fullText) ==
    IF wordCount(fullText) < 50 THEN Opening
    ELSE IF wordCount(fullText) <= 300 THEN Middle
    ELSE Closing

detectPosition(fullText) ==
    IF wordCount(fullText) < 50 THEN Opening
    ELSE IF wordCount(fullText) < 300 THEN Middle
    ELSE Closing

\* the establish stage taken to end at 20 words, 20 included
detectStageInclusive(precedingText) ==
    IF wordCount(precedingText) = 0 THEN Start
    ELSE IF wordCount(precedingText) <= 20 THEN Establish
    ELSE Continue

detectStage(precedingText) ==
    IF wordCount(precedingText) = 0 THEN Start
    ELSE IF wordCount(precedingText) < 20 THEN Establish
    ELSE Continue

-----------------------------------------------------------------------------
(* What a handler's run yields: the store it leaves, the reply it sent (if  *)
(* it returned), the model call it awaits (if it did not) and the key it    *)
(* set (if it did).                                                         *)

Reply(status, body) == [sent |-> TRUE, status |-> status, body |-> body]
NoReply == [sent |-> FALSE, status |-> 0, body |-> [none |-> TRUE]]
NoCall == [fn |-> "none"]
NoKey == <<>>

Returned(s, reply) ==
    [store |-> s, reply |-> reply, pending |-> NoCall, wrote |-> NoKey]
Awaiting(s, call) ==
    [store |-> s, reply |-> NoReply, pending |-> call, wrote |-> NoKey]
SetAndReturned(s, key, value, ttlSeconds, t, reply) ==
    [store |-> CacheSet(s, key, value, ttlSeconds, t), reply |-> reply,
     pending |-> NoCall, wrote |-> key]

\* An async handler whose awaited promise rejects rejects itself, and Fastify
\* answers 500.
InternalServerError(s) == Returned(s, Reply(500, [error |-> "Internal Server Error"]))

\* an identifier source that returns one identifier again and again
uuidRepeated(n) == <<"uuid1">>

\* uuidv4(): the n-th identifier returned; no two calls return the same one
uuidv4(n) == <<"uuid" \o ToString(n)>>

-----------------------------------------------------------------------------
(* routes/session.ts *)

\* a validation that requires style and tone as well
sessionMissingAnyField(body) ==
    IF Falsy(body.outline) THEN "outline"
    ELSE IF Falsy(body.style) THEN "style"
    ELSE IF Falsy(body.tone) THEN "tone"
    ELSE "none"

\* the validation of POST /session: the missing field, or "none"
sessionMissingField(body) ==
    IF Falsy(body.outline) THEN "outline" ELSE "none"

\* POST /session storing the context at once, without deriving a thesis
sessionRouteWithoutThesis(s, t, body, n) ==
    IF Falsy(body.outline)
    THEN Returned(s, Reply(400, [error |-> "missing required field: outline"]))
    ELSE SetAndReturned(s, SessionKey(<<"uuid" \o ToString(n + 1)>>),
                        [outline |-> body.outline, style |-> body.style,
                         tone |-> body.tone],
                        60 * 60 * 24, t,
                        Reply(201, [sessionId |-> <<"uuid" \o ToString(n + 1)>>]))

\* POST /session up to its await; n uuids have been issued before
sessionRoute(s, t, body, n) ==
    LET outline == body.outline
        style == body.style
        tone == body.tone
        sessionId == uuidv4(n + 1)
    IN  IF sessionMissingField(body) # "none"
        THEN Returned(s, Reply(400, [error |-> "missing required field: "
                                                \o sessionMissingField(body)]))
        ELSE Awaiting(s, [fn |-> "deriveThesis",
                          key |-> SessionKey(sessionId),
                          sessionId |-> sessionId,
                          outline |-> outline,
                          style |-> Coalesce(style, <<>>),
                          tone |-> Coalesce(tone, <<>>)])

\* POST /session from the settling of deriveThesis
sessionResume(s, t, body, pending, outcome) ==
    LET thesis == deriveThesis(outcome)
    IN  IF thesis.rejected THEN InternalServerError(s)
        ELSE SetAndReturned(s, SessionKey(pending.sessionId),
                            [outline |-> body.outline, style |-> body.style,
                             tone |-> body.tone, thesis |-> thesis.value],
                            TTL_SESSION, t,
                            Reply(201, [sessionId |-> pending.sessionId]))

-----------------------------------------------------------------------------
(* routes/predict.ts *)

Word == <<"word">>
Bridge == <<"bridge">>
Confidence == "0.85"

\* if (cached), which takes a cached empty string for a miss
predictCachedTruthy(s, cacheKey, t) ==
    CacheHit(s, cacheKey, t) /\ s[cacheKey].value # <<>>

\* a handler that never finds its key in the cache
predictCachedNever(s, cacheKey, t) == FALSE

\* cached !== null, for cached = cache.get(cacheKey)
predictCached(s, cacheKey, t) == CacheHit(s, cacheKey, t)

\* a validation that looks at the fields in the opposite order
predictMissingFieldReversed(body) ==
    IF IsNullish(body.precedingText) THEN "precedingText"
    ELSE IF IsNullish(body.mode) THEN "mode"
    ELSE IF IsNullish(body.sessionId) THEN "sessionId"
    ELSE "none"

\* the validation loop of POST /predict: the first missing field, or "none"
predictMissingField(body) ==
    IF IsNullish(body.sessionId) THEN "sessionId"
    ELSE IF IsNullish(body.mode) THEN "mode"
    ELSE IF IsNullish(body.precedingText) THEN "precedingText"
    ELSE "none"

\* a handler without the early return
predictNeverShortCircuits(precedingText) == FALSE

\* if (!precedingText), for a precedingText that is present
predictShortCircuits(precedingText) == precedingText = <<>>

\* a handler that wants the session in word mode too
needsSessionAlways(mode) == TRUE

\* the bridge branch, reached unless mode === "word"
needsSession(mode) == mode # Word

\* a handler whose cache hit renews the entry for another TTL
predictRouteSliding(s, t, body) ==
    LET sessionId == body.sessionId
        mode == body.mode
        precedingText == body.precedingText
        position == IF body.position = Undefined THEN <<"middle">> ELSE body.position
        text == truncatePrecedingText(precedingText)
        cacheKey == PredictKey(hashKey(<<sessionId, text>>))
        afterLookup == CacheAfterGet(s, cacheKey, t)
        sessionKey == SessionKey(sessionId)
    IN  IF predictMissingField(body) # "none"
        THEN Returned(s, Reply(400, [error |-> "missing required field: "
                                                \o predictMissingField(body)]))
        ELSE IF mode # Word /\ mode # Bridge
        THEN Returned(s, Reply(400, [error |-> "mode must be word or bridge"]))
        ELSE IF predictShortCircuits(precedingText)
        THEN Returned(s, Reply(200, [mode |-> mode, suggestion |-> <<>>,
                                     confidence |-> Confidence, cached |-> FALSE]))
        ELSE IF predictCached(s, cacheKey, t)
        THEN SetAndReturned(s, cacheKey, s[cacheKey].value, TTL_PREDICTION, t,
                            Reply(200, [mode |-> mode,
                                        suggestion |-> s[cacheKey].value,
                                        confidence |-> Confidence,
                                        cached |-> TRUE]))
        ELSE IF ~needsSession(mode)
        THEN Awaiting(afterLookup, [fn |-> "getWordSuggestion", key |-> cacheKey,
                                    mode |-> mode, text |-> text])
        ELSE IF ~CacheHit(afterLookup, sessionKey, t)
        THEN Returned(CacheAfterGet(afterLookup, sessionKey, t),
                      Reply(404, [error |-> "Session not found or expired"]))
        ELSE Awaiting(afterLookup, [fn |-> "getBridgeSuggestion", key |-> cacheKey,
                                    mode |-> mode, text |-> text,
                                    context |-> afterLookup[sessionKey].value,
                                    position |-> position,
                                    stage |-> DefaultStage])

\* POST /predict up to its await
predictRoute(s, t, body) ==
    LET sessionId == body.sessionId
        mode == body.mode
        precedingText == body.precedingText
        position == IF body.position = Undefined THEN <<"middle">> ELSE body.position
        text == truncatePrecedingText(precedingText)
        cacheKey == PredictKey(hashKey(<<sessionId, text>>))
        afterLookup == CacheAfterGet(s, cacheKey, t)
        sessionKey == SessionKey(sessionId)
    IN  IF predictMissingField(body) # "none"
        THEN Returned(s, Reply(400, [error |-> "missing required field: "
                                                \o predictMissingField(body)]))
        ELSE IF mode # Word /\ mode # Bridge
        THEN Returned(s, Reply(400, [error |-> "mode must be word or bridge"]))
        ELSE IF predictShortCircuits(precedingText)
        THEN Returned(s, Reply(200, [mode |-> mode, suggestion |-> <<>>,
                                     confidence |-> Confidence, cached |-> FALSE]))
        ELSE IF predictCached(s, cacheKey, t)
        THEN Returned(s, Reply(200, [mode |-> mode, suggestion |-> s[cacheKey].value,
                                     confidence |-> Confidence, cached |-> TRUE]))
        ELSE IF ~needsSession(mode)
        THEN Awaiting(afterLookup, [fn |-> "getWordSuggestion", key |-> cacheKey,
                                    mode |-> mode, text |-> text])
        ELSE IF ~CacheHit(afterLookup, sessionKey, t)
        THEN Returned(CacheAfterGet(afterLookup, sessionKey, t),
                      Reply(404, [error |-> "Session not found or expired"]))
        ELSE Awaiting(afterLookup, [fn |-> "getBridgeSuggestion", key |-> cacheKey,
                                    mode |-> mode, text |-> text,
                                    context |-> afterLookup[sessionKey].value,
                                    position |-> position,
                                    stage |-> DefaultStage])

\* a handler that replies with the suggestion but does not store it
predictResumeWithoutSet(s, t, body, pending, outcome) ==
    LET suggestion == IF pending.fn = "getWordSuggestion"
                      THEN getWordSuggestion(outcome)
                      ELSE getBridgeSuggestion(outcome)
    IN  IF suggestion.rejected THEN InternalServerError(s)
        ELSE Returned(s, Reply(200, [mode |-> pending.mode,
                                     suggestion |-> suggestion.value,
                                     confidence |-> Confidence,
                                     cached |-> FALSE]))

\* POST /predict from the settling of the model call
predictResume(s, t, body, pending, outcome) ==
    LET suggestion == IF pending.fn = "getWordSuggestion"
                      THEN getWordSuggestion(outcome)
                      ELSE getBridgeSuggestion(outcome)
    IN  IF suggestion.rejected THEN InternalServerError(s)
        ELSE SetAndReturned(s, pending.key, suggestion.value, TTL_PREDICTION, t,
                            Reply(200, [mode |-> pending.mode,
                                        suggestion |-> suggestion.value,
                                        confidence |-> Confidence,
                                        cached |-> FALSE]))

-----------------------------------------------------------------------------
(* routes/next.ts *)

EmptyContext == [outline |-> <<>>, style |-> <<>>, tone |-> <<>>]

\* the session entry read without regard to its expiry
nextContextStale(s, sessionKey, t) ==
    IF sessionKey \in DOMAIN s THEN s[sessionKey].value ELSE EmptyContext

\* cache.get(`session:${sessionId}`) ?? {outline: "", style: "", tone: ""}
nextContext(s, sessionKey, t) ==
    IF CacheHit(s, sessionKey, t) THEN s[sessionKey].value ELSE EmptyContext

\* POST /next up to its await
nextRoute(s, t, body) ==
    LET sessionId == body.sessionId
        lastParagraph == body.lastParagraph
        currentSection == body.currentSection
        sessionKey == SessionKey(sessionId)
        context == nextContext(s, sessionKey, t)
        afterSession == CacheAfterGet(s, sessionKey, t)
        truncated == SliceLast(lastParagraph, 500)
        section == Coalesce(currentSection, <<>>)
        cacheKey == NextKey(hashKey(<<sessionId, truncated \o section>>))
        afterLookup == CacheAfterGet(afterSession, cacheKey, t)
    IN  IF Falsy(sessionId) \/ IsNullish(lastParagraph)
        THEN Returned(s, Reply(400, [error |-> "missing required field"]))
        ELSE IF CacheHit(afterSession, cacheKey, t)
        THEN Returned(afterSession,
                      Reply(200, [phrase |-> afterSession[cacheKey].value.phrase,
                                  angle |-> afterSession[cacheKey].value.angle,
                                  cached |-> TRUE]))
        ELSE Awaiting(afterLookup, [fn |-> "getNextSuggestion", key |-> cacheKey,
                                    lastParagraph |-> truncated,
                                    context |-> context,
                                    currentSection |-> IF section = <<>> THEN Undefined
                                                       ELSE section])

\* POST /next from the settling of getNextSuggestion
nextResume(s, t, body, pending, outcome) ==
    LET result == getNextSuggestion(outcome)
    IN  IF result.rejected THEN InternalServerError(s)
        ELSE SetAndReturned(s, pending.key, result.value, TTL_PREDICTION, t,
                            Reply(200, [phrase |-> result.value.phrase,
                                        angle |-> result.value.angle,
                                        cached |-> FALSE]))

-----------------------------------------------------------------------------
(* lib/detectMode.ts: the mode classifier, as the repository describes it   *)

LettersAndDigits == {"a", "b", "1"}

\* the text without the spaces at its end
RECURSIVE TrimTrailingSpaces(_)
TrimTrailingSpaces(text) ==
    IF text # <<>> /\ text[Len(text)] = " "
    THEN TrimTrailingSpaces(SubSeq(text, 1, Len(text) - 1))
    ELSE text

\* the last character looked at without trimming
detectModeUntrimmed(precedingText) ==
    IF precedingText # <<>>
       /\ precedingText[Len(precedingText)] \in LettersAndDigits
    THEN Word
    ELSE Bridge

\* trim trailing spaces; a last character that is a letter or a digit is
\* mid-word, anything else is between thoughts
detectMode(precedingText) ==
    LET trimmed == TrimTrailingSpaces(precedingText)
    IN  IF trimmed # <<>> /\ trimmed[Len(trimmed)] \in LettersAndDigits
        THEN Word
        ELSE Bridge

-----------------------------------------------------------------------------
(* The requests clients send and the answers the model gives *)

\* Under Spec, requests name the first session id issued: before it is
\* issued, while its session lives and after it expired.
SessionBodies ==
    { [outline |-> <<"o">>, style |-> <<"s">>, tone |-> <<"t">>] }

PredictBodies ==
    { [sessionId |-> uuidv4(1), mode |-> Word, precedingText |-> <<"a">>,
       position |-> Undefined],
      [sessionId |-> uuidv4(1), mode |-> Bridge, precedingText |-> <<"a">>,
       position |-> Undefined],
      [sessionId |-> uuidv4(1), mode |-> Bridge, precedingText |-> <<>>,
       position |-> Undefined] }

NextBodies ==
    { [sessionId |-> uuidv4(1), lastParagraph |-> <<"p">>,
       currentSection |-> <<"c">>],
      [sessionId |-> uuidv4(1), lastParagraph |-> Undefined,
       currentSection |-> <<"c">>] }

ThesisOutcomes ==
    { Throws,
      Resolves(<<ToolUseBlock, TextBlock(<<" ", "T">>)>>) }

SuggestionOutcomes ==
    { Throws,
      Resolves(<<ToolUseBlock>>),
      Resolves(<<TextBlock(<<" ", "y", ".", "!", " ">>)>>) }

NextOutcomes ==
    { Throws,
      Resolves(<<ToolUseBlock>>),
      Resolves(<<TextBlock(<<"}", "n", "{">>)>>),
      Resolves(<<TextBlock(<<"n", "{", "both", "}", "n">>)>>) }

\* Under SpecSeq, every shape of request body.
SeqSessionBodies ==
    [outline : {Undefined, Null, <<>>, <<"o">>},
     style : {Undefined, <<"s">>},
     tone : {Undefined, <<"t">>}]

SeqPredictBodies ==
    [sessionId : {Undefined, uuidv4(1)},
     mode : {Undefined, Word, Bridge, <<"essay">>},
     precedingText : {Null, <<>>, <<"a">>},
     position : {Undefined}]

SeqNextBodies ==
    [sessionId : {Undefined, <<>>, uuidv4(1)},
     lastParagraph : {Undefined, Null, <<>>, <<"p">>},
     currentSection : {Undefined}]
    \cup { [sessionId |-> uuidv4(1), lastParagraph |-> <<"p">>,
            currentSection |-> <<"c">>],
          [sessionId |-> uuidv4(1), lastParagraph |-> <<"p", "c">>,
            currentSection |-> Undefined] }

\* The clock is observed at the instants where the cache's answers can
\* change: the expiry instant of a stored entry (at which get still returns
\* it) and the millisecond after (from which it no longer does).
ClockInstants(s) ==
    UNION { {s[k].expiresAt, s[k].expiresAt + 1} : k \in DOMAIN s }

-----------------------------------------------------------------------------
(* State machine *)

NoOutcome == [none |-> TRUE]
NoBody == [none |-> TRUE]

Init ==
    /\ store = <<>>
    /\ now = 0
    /\ issued = 0
    /\ calls = 0
    /\ inflight = <<>>
    /\ created = <<>>
    /\ failed = <<>>
    /\ lastSet = <<>>
    /\ ev = [op |-> "init", phase |-> "none", id |-> 0, body |-> NoBody,
             reply |-> NoReply, call |-> NoCall, outcome |-> NoOutcome]

\* A request arrives and its handler runs to its reply or to its await.
Begin(op, body, r) ==
    /\ r.pending.fn # "none" => calls < MaxCalls
    /\ calls' = IF r.pending.fn = "none" THEN calls ELSE calls + 1
    /\ store' = r.store
    /\ inflight' = IF r.pending.fn = "none" THEN inflight
                   ELSE inflight @@ ((calls + 1) :>
                            [op |-> op, body |-> body, pending |-> r.pending])
    /\ ev' = [op |-> op, phase |-> "begin",
              id |-> IF r.pending.fn = "none" THEN 0 ELSE calls + 1,
              body |-> body, reply |-> r.reply, call |-> r.pending,
              outcome |-> NoOutcome]
    /\ UNCHANGED <<now, created, failed, lastSet>>

\* Model call id settles and the handler awaiting it runs to its reply.
Complete(id, outcome, r) ==
    /\ store' = r.store
    /\ inflight' = [i \in DOMAIN inflight \ {id} |-> inflight[i]]
    /\ created' = IF r.wrote # NoKey /\ inflight[id].op = "session"
                  THEN created @@ (inflight[id].pending.sessionId :>
                            [at |-> now, context |-> r.store[r.wrote].value])
                  ELSE created
    /\ failed' = IF r.wrote # NoKey /\ inflight[id].op = "predict" /\ outcome.throws
                 THEN [k \in DOMAIN failed \cup {r.wrote} |->
                        IF k = r.wrote
                        THEN [at |-> now, body |-> inflight[id].body,
                              overlapped |-> \E j \in DOMAIN inflight \ {id} :
                                                inflight[j].pending.key = r.wrote]
                        ELSE failed[k]]
                 ELSE failed
    /\ ev' = [op |-> inflight[id].op, phase |-> "complete", id |-> id,
              body |-> inflight[id].body, reply |-> r.reply,
              call |-> inflight[id].pending, outcome |-> outcome]
    /\ UNCHANGED <<now, issued, calls, lastSet>>

SessionBeginOf(bodies) ==
    \E body \in bodies :
        LET r == sessionRoute(store, now, body, issued)
        IN  /\ Begin("session", body, r)
            /\ issued' = IF r.pending.fn = "none" THEN issued ELSE issued + 1

SessionComplete ==
    \E id \in DOMAIN inflight, outcome \in ThesisOutcomes :
        /\ inflight[id].op = "session"
        /\ Complete(id, outcome,
                    sessionResume(store, now, inflight[id].body,
                                  inflight[id].pending, outcome))

PredictBeginOf(bodies) ==
    \E body \in bodies :
        /\ Begin("predict", body, predictRoute(store, now, body))
        /\ UNCHANGED issued

PredictComplete ==
    \E id \in DOMAIN inflight, outcome \in SuggestionOutcomes :
        /\ inflight[id].op = "predict"
        /\ Complete(id, outcome,
                    predictResume(store, now, inflight[id].body,
                                  inflight[id].pending, outcome))

NextBeginOf(bodies) ==
    \E body \in bodies :
        /\ Begin("next", body, nextRoute(store, now, body))
        /\ UNCHANGED issued

NextComplete ==
    \E id \in DOMAIN inflight, outcome \in NextOutcomes :
        /\ inflight[id].op = "next"
        /\ Complete(id, outcome,
                    nextResume(store, now, inflight[id].body,
                               inflight[id].pending, outcome))

SessionBegin == SessionBeginOf(SessionBodies)
PredictBegin == PredictBeginOf(PredictBodies)
NextBegin == NextBeginOf(NextBodies)

\* The clock advances to an instant at which some stored entry's fate changes.
Tick ==
    \E t \in ClockInstants(store) :
        /\ t > now
        /\ now' = t
        /\ ev' = [op |-> "tick", phase |-> "none", id |-> 0, body |-> NoBody,
                  reply |-> NoReply, call |-> NoCall, outcome |-> NoOutcome]
        /\ UNCHANGED <<store, issued, calls, inflight, created, failed, lastSet>>

Next ==
    \/ SessionBegin
    \/ SessionComplete
    \/ PredictBegin
    \/ PredictComplete
    \/ NextBegin
    \/ NextComplete
    \/ Tick

Spec == Init /\ [][Next]_vars

\* One request at a time, the clock standing still.
SeqSessionBegin == inflight = <<>> /\ SessionBeginOf(SeqSessionBodies)
SeqPredictBegin == inflight = <<>> /\ PredictBeginOf(SeqPredictBodies)
SeqNextBegin == inflight = <<>> /\ NextBeginOf(SeqNextBodies)

NextSeq ==
    \/ SeqSessionBegin
    \/ SessionComplete
    \/ SeqPredictBegin
    \/ PredictComplete
    \/ SeqNextBegin
    \/ NextComplete

SpecSeq == Init /\ [][NextSeq]_vars

-----------------------------------------------------------------------------
(* The cache alone *)

CacheKeys == {<<"k1">>, <<"k2">>}
CacheValues == {<<"v">>, <<>>}
CacheTtls == {0, 1}
ClockStep == 1000 \div 2

SetOp ==
    \E key \in CacheKeys, value \in CacheValues, ttlSeconds \in CacheTtls :
        /\ store' = CacheSet(store, key, value, ttlSeconds, now)
        /\ lastSet' = [k \in DOMAIN lastSet \cup {key} |->
                        IF k = key
                        THEN [value |-> value, at |-> now, ttlSeconds |-> ttlSeconds]
                        ELSE lastSet[k]]
        /\ ev' = [op |-> "set", key |-> key, result |-> Undefined]
        /\ UNCHANGED <<now, issued, calls, inflight, created, failed>>

GetOp ==
    \E key \in CacheKeys :
        /\ store' = CacheAfterGet(store, key, now)
        /\ ev' = [op |-> "get", key |-> key, result |-> CacheGet(store, key, now)]
        /\ UNCHANGED <<now, issued, calls, inflight, created, failed, lastSet>>

DeleteOp ==
    \E key \in CacheKeys :
        /\ store' = CacheDelete(store, key)
        /\ lastSet' = [k \in DOMAIN lastSet \ {key} |-> lastSet[k]]
        /\ ev' = [op |-> "delete", key |-> key, result |-> Undefined]
        /\ UNCHANGED <<now, issued, calls, inflight, created, failed>>

AdvanceClock ==
    /\ now < MaxClock
    /\ now' = now + ClockStep
    /\ ev' = [op |-> "clock", key |-> NoKey, result |-> Undefined]
    /\ UNCHANGED <<store, issued, calls, inflight, created, failed, lastSet>>

NextCache ==
    \/ SetOp
    \/ GetOp
    \/ DeleteOp
    \/ AdvanceClock

SpecCache == Init /\ [][NextCache]_vars

-----------------------------------------------------------------------------
(* The pure functions alone, applied to inputs of every shape *)

\* a behaviour applies one function to one input
NothingApplied == ev.op = "init"

HashStrings == { <<>>, <<"a">>, <<"b">>, <<"|">>, <<"a", "|", "b">> }

\* argument tuples of hashKey: one to three strings
HashInputs ==
    UNION { [1..n -> HashStrings] : n \in 1..3 }

HashOp ==
    \E parts \in HashInputs :
        /\ NothingApplied
        /\ ev' = [op |-> "hashKey", parts |-> parts, result |-> hashKey(parts)]
        /\ UNCHANGED <<store, now, issued, calls, inflight, created, failed,
                       lastSet>>

\* arguments of promptBuilder: the three stages and the three positions, a
\* stage and a position the types do not name, a thesis absent, empty or set
PromptStages == {Start, Establish, Continue, <<"draft">>}
PromptPositions == {Opening, Middle, Closing, <<"end">>}
PromptTheses == {Undefined, <<>>, <<"T">>}

PromptInputs ==
    [outline : {<<"o">>, <<"q">>}, style : {<<"s">>}, tone : {<<"t">>, <<"u">>},
     thesis : PromptTheses, precedingText : {<<>>, <<"a">>},
     stage : PromptStages, position : PromptPositions]

PromptOp ==
    \E args \in PromptInputs :
        /\ NothingApplied
        /\ ev' = [op |-> "promptBuilder", args |-> args,
                  result |-> promptBuilder(args)]
        /\ UNCHANGED <<store, now, issued, calls, inflight, created, failed,
                       lastSet>>

\* arguments of getNextSuggestion's prompt: a context with and without a
\* thesis, a current section absent, empty or given
NextPromptContexts ==
    [outline : {<<"o">>, <<"q">>}, style : {<<"s">>}, tone : {<<"t">>},
     thesis : PromptTheses]
    \cup [outline : {<<>>}, style : {<<>>}, tone : {<<>>}]

NextPromptOp ==
    \E lastParagraph \in {<<"p">>, <<>>}, context \in NextPromptContexts,
       currentSection \in {Undefined, <<>>, <<"c">>} :
        /\ NothingApplied
        /\ ev' = [op |-> "nextPrompt",
                  args |-> [lastParagraph |-> lastParagraph, context |-> context,
                            currentSection |-> currentSection],
                  result |-> nextPrompt(lastParagraph, context, currentSection)]
        /\ UNCHANGED <<store, now, issued, calls, inflight, created, failed,
                       lastSet>>

\* a text of n one-letter words: the words one space apart, or with white space around
\* the text, or with runs of white space between the words and around it
TextOfWords(n, gap) ==
    IF n = 0 THEN <<>>
    ELSE [i \in 1..(n + (n - 1) * Len(gap)) |->
            IF (i - 1) % (1 + Len(gap)) = 0 THEN "a"
            ELSE gap[(i - 1) % (1 + Len(gap))]]

TextShapes == {"plain", "padded", "wide"}

TextOf(n, shape) ==
    CASE shape = "plain" -> TextOfWords(n, <<" ">>)
      [] shape = "padded" -> <<" ">> \o TextOfWords(n, <<" ">>) \o <<"\n">>
      [] OTHER -> <<"\n", " ">> \o TextOfWords(n, <<" ", "\n", " ">>) \o <<" ", " ">>

\* word counts around the limits of detectStage and of detectPosition
StageWordCounts == {0, 1, 2, 19, 20, 21, 40}
PositionWordCounts == {0, 1, 49, 50, 51, 299, 300, 301}

StageOp ==
    \E n \in StageWordCounts, shape \in TextShapes :
        /\ NothingApplied
        /\ ev' = [op |-> "detectStage", words |-> n, shape |-> shape,
                  result |-> detectStage(TextOf(n, shape))]
        /\ UNCHANGED <<store, now, issued, calls, inflight, created, failed,
                       lastSet>>

PositionOp ==
    \E n \in PositionWordCounts, shape \in TextShapes :
        /\ NothingApplied
        /\ ev' = [op |-> "detectPosition", words |-> n, shape |-> shape,
                  result |-> detectPosition(TextOf(n, shape))]
        /\ UNCHANGED <<store, now, issued, calls, inflight, created, failed,
                       lastSet>>

\* a text of n characters whose character i is the letter of i modulo 7: a
\* text shifted by 1 or by 100 characters is another text
Letters == <<"a", "b", "c", "d", "e", "f", "g">>
TextOfLength(n) == [i \in 1..n |-> Letters[(i % 7) + 1]]

\* lengths around MAX_PRECEDING_TEXT
TruncateLengths == {0, 1, 499, 500, 501, 600, 1001}

TruncateOp ==
    \E n \in TruncateLengths :
        /\ NothingApplied
        /\ ev' = [op |-> "truncatePrecedingText", text |-> TextOfLength(n),
                  result |-> truncatePrecedingText(TextOfLength(n))]
        /\ UNCHANGED <<store, now, issued, calls, inflight, created, failed,
                       lastSet>>

\* raw suggestions: every string of up to four characters over a letter,
\* two punctuation marks and a blank, and some longer ones
RawCharacters == {"a", ",", "!", " "}
RawSuggestions ==
    UNION { [1..n -> RawCharacters] : n \in 0..4 }
    \cup { <<"h", "i", " ", "y", "o", "!", "!", "!">>,
           <<"h", "i", ",", " ", "y", "o">>,
           <<"\n", " ", "a", ",", "b", ".", "?", "!", ",", " ", "\n">>,
           <<"a", ".", " ", "?">>,
           <<"a", "?", " ", ".">> }

PostProcessOp ==
    \E raw \in RawSuggestions :
        /\ NothingApplied
        /\ ev' = [op |-> "postProcessSuggestion", raw |-> raw,
                  result |-> postProcessSuggestion(raw)]
        /\ UNCHANGED <<store, now, issued, calls, inflight, created, failed,
                       lastSet>>

\* raw answers to the /next prompt: every text of up to four tokens over the
\* braces, noise and an object's members, and some other ones
ParseTokens == {"{", "}", "n", "both"}
ParseTexts ==
    UNION { [1..n -> ParseTokens] : n \in 0..4 }
    \cup { <<"n", "{", "both", "}", "n">>,
           <<"{", "both", "}", "n", "}">>,
           <<"{", "both", "}", "{", "both", "}">>,
           <<"n", "{", "runs", "}">>,
           <<"{", "partial", "}">>,
           <<"{", "number", "}">>,
           <<"{", "bad", "}">> }

ParseOutcomes ==
    { Throws, Resolves(<<>>), Resolves(<<ToolUseBlock>>) }
    \cup { Resolves(<<TextBlock(text)>>) : text \in ParseTexts }

ParseOp ==
    \E outcome \in ParseOutcomes :
        /\ NothingApplied
        /\ ev' = [op |-> "getNextSuggestion", outcome |-> outcome,
                  result |-> getNextSuggestion(outcome)]
        /\ UNCHANGED <<store, now, issued, calls, inflight, created, failed,
                       lastSet>>

\* texts before the cursor: every text of up to three characters over a
\* letter, a digit, a space, a line break and a full stop
ModeCharacters == {"a", "1", " ", "\n", "."}
ModeTexts == UNION { [1..n -> ModeCharacters] : n \in 0..3 }

ModeOp ==
    \E text \in ModeTexts :
        /\ NothingApplied
        /\ ev' = [op |-> "detectMode", text |-> text, result |-> detectMode(text)]
        /\ UNCHANGED <<store, now, issued, calls, inflight, created, failed,
                       lastSet>>

NextPure ==
    \/ HashOp
    \/ PromptOp
    \/ NextPromptOp
    \/ StageOp
    \/ PositionOp
    \/ TruncateOp
    \/ PostProcessOp
    \/ ParseOp
    \/ ModeOp

SpecPure == Init /\ [][NextPure]_vars

-----------------------------------------------------------------------------
(* Properties.  A property of a handler is stated over every reachable      *)
(* state: for each request that can arrive in the state, and each model     *)
(* answer that can settle in it, what the handler replies and leaves behind. *)

PredictRequests == PredictBodies \cup SeqPredictBodies
NextRequests == NextBodies \cup SeqNextBodies
SessionRequests == SessionBodies \cup SeqSessionBodies

\* cache.get(`session:${sessionId}`) returns a context now
LiveSession(sessionId) == CacheHit(store, SessionKey(sessionId), now)

\* a /predict body that passes validation and has text to complete
PredictsText(body) ==
    /\ ~IsNullish(body.sessionId)
    /\ body.mode \in {Word, Bridge}
    /\ ~IsNullish(body.precedingText)
    /\ body.precedingText # <<>>

\* the prediction-cache key of a /predict body
KeyOfPredict(body) ==
    PredictKey(hashKey(<<body.sessionId, truncatePrecedingText(body.precedingText)>>))

IsSessionKey(k) == k[1] = "session:"

NotFound == Reply(404, [error |-> "Session not found or expired"])

\* C1: a bridge-mode /predict request with text whose session is absent or
\* expired is answered 404 'Session not found or expired', whatever the
\* prediction cache holds.
C1_BridgeWithoutSessionIsNotFound ==
    \A body \in PredictRequests :
        (PredictsText(body) /\ body.mode = Bridge /\ ~LiveSession(body.sessionId))
            => predictRoute(store, now, body).reply = NotFound

\* the replies of /next to a request, at its arrival or at its completion
NextAnswers200(reply) ==
    /\ reply.sent
    /\ reply.status = 200
    /\ DOMAIN reply.body = {"phrase", "angle", "cached"}

\* /next serves the request from the cache or asks the model with the empty
\* context
NextDegrades(body) ==
    LET r == nextRoute(store, now, body)
    IN  \/ NextAnswers200(r.reply) /\ r.reply.body.cached /\ r.pending = NoCall
        \/ /\ ~r.reply.sent
           /\ r.pending.fn = "getNextSuggestion"
           /\ r.pending.context = EmptyContext

NextCompletes200 ==
    \A id \in DOMAIN inflight, outcome \in NextOutcomes :
        inflight[id].op = "next" =>
            NextAnswers200(nextResume(store, now, inflight[id].body,
                                      inflight[id].pending, outcome).reply)

StoresEmptyOnThrow ==
    \A id \in DOMAIN inflight :
        inflight[id].op = "predict" =>
            LET body == inflight[id].body
                key == KeyOfPredict(body)
                r == predictResume(store, now, body, inflight[id].pending, Throws)
            IN  /\ getWordSuggestion(Throws) = Fulfilled(<<>>)
                /\ getBridgeSuggestion(Throws) = Fulfilled(<<>>)
                /\ key \in DOMAIN r.store
                /\ r.store[key].value = <<>>
                /\ r.reply.status = 200
                /\ r.reply.body.suggestion = <<>>

\* the request of failed[key] made again now is served '' from the cache
ServedEmptyFromCache(key) ==
    LET r == predictRoute(store, now, failed[key].body)
    IN  /\ r.reply = Reply(200, [mode |-> failed[key].body.mode,
                                 suggestion |-> <<>>,
                                 confidence |-> Confidence,
                                 cached |-> TRUE])
        /\ r.pending = NoCall

\* C4 (as stated): when the model call throws, the wrapper resolves to '',
\* /predict stores '' under the request's key, and every identical request
\* within the 300-second window is answered '' with cached=true and no new
\* model call.
C4_FailureIsMemoised ==
    /\ StoresEmptyOnThrow
    /\ \A key \in DOMAIN failed :
            now <= failed[key].at + 300 * 1000 => ServedEmptyFromCache(key)

\* C4 (amended): when the model call throws, the wrapper resolves to '' and
\* /predict stores '' under the request's key; provided no other request
\* with the same key was awaiting the model when '' was stored, every
\* identical request within the 300-second window is answered '' with
\* cached=true and no new model call.
C4_FailureIsMemoisedUnlessOverlapped ==
    /\ StoresEmptyOnThrow
    /\ \A key \in DOMAIN failed :
            (now <= failed[key].at + 300 * 1000 /\ ~failed[key].overlapped)
                => ServedEmptyFromCache(key)

\* a bridge request whose model call threw earlier is served '' from the
\* cache at the last instant of the window
C4_Witness ==
    /\ ev.op = "predict" /\ ev.phase = "begin"
    /\ ev.body.mode = Bridge
    /\ ev.reply.sent /\ ev.reply.status = 200
    /\ ev.reply.body.cached /\ ev.reply.body.suggestion = <<>>
    /\ \E key \in DOMAIN failed :
            /\ failed[key].body = ev.body
            /\ ~failed[key].overlapped
            /\ now = failed[key].at + 300 * 1000

\* the model fails: the call throws, its first block is no text block, or
\* (for /next) its text holds no JSON object with string members
ModelFails(op, outcome) ==
    \/ outcome.throws
    \/ ~FirstIsText(outcome.content)
    \/ /\ op = "next"
       /\ LET text == outcome.content[1].text
              start == IndexOf(text, "{")
              end == LastIndexOf(text, "}")
          IN  \/ start = 0
              \/ end = 0
              \/ ~JsonValid(SubSeq(text, start, end))
              \/ NotAString \in { JsonParse(SubSeq(text, start, end)).phrase,
                                  JsonParse(SubSeq(text, start, end)).angle }

\* C5: /predict and /next never answer with an error status because of the
\* model: whatever the model call does the request completes with 200, and
\* when the call throws, returns a non-text block or returns unparseable
\* output, the reply carries the empty sentinel.
C5_ModelFailureIsSentinel ==
    \A id \in DOMAIN inflight :
        /\ inflight[id].op = "predict" =>
                \A outcome \in SuggestionOutcomes :
                    LET r == predictResume(store, now, inflight[id].body,
                                           inflight[id].pending, outcome)
                    IN  /\ r.reply.sent /\ r.reply.status = 200
                        /\ ModelFails("predict", outcome)
                                => r.reply.body.suggestion = <<>>
        /\ inflight[id].op = "next" =>
                \A outcome \in NextOutcomes :
                    LET r == nextResume(store, now, inflight[id].body,
                                        inflight[id].pending, outcome)
                    IN  /\ r.reply.sent /\ r.reply.status = 200
                        /\ ModelFails("next", outcome)
                                => /\ r.reply.body.phrase = <<>>
                                   /\ r.reply.body.angle = <<>>

\* a /next request completed with the sentinel after the model returned
\* text that JSON.parse rejects
C5_Witness ==
    /\ ev.op = "next" /\ ev.phase = "complete"
    /\ ~ev.outcome.throws
    /\ FirstIsText(ev.outcome.content)
    /\ ev.reply.status = 200
    /\ ev.reply.body.phrase = <<>> /\ ev.reply.body.angle = <<>>
    /\ ~ev.reply.body.cached

SessionIds == { uuidv4(n) : n \in 1..(issued + 1) }

\* the requests awaiting deriveThesis
DerivingThesis == { id \in DOMAIN inflight : inflight[id].op = "session" }

\* C6: POST /session with a non-empty outline is answered 201 with a
\* sessionId and stores the session for 24 hours whether thesis derivation
\* succeeds or throws; when it throws the stored thesis is ''; every stored
\* session has a thesis that is a string.
C6_SessionAlwaysCreated ==
    /\ \A body \in SessionRequests :
            ~Falsy(body.outline) =>
                LET r == sessionRoute(store, now, body, issued)
                IN  ~r.reply.sent /\ r.pending.fn = "deriveThesis"
    /\ \A id \in DerivingThesis, outcome \in ThesisOutcomes :
            LET sessionId == inflight[id].pending.sessionId
                key == SessionKey(sessionId)
                r == sessionResume(store, now, inflight[id].body,
                                   inflight[id].pending, outcome)
            IN  /\ r.reply = Reply(201, [sessionId |-> sessionId])
                /\ key \in DOMAIN r.store
                /\ r.store[key].expiresAt = now + 24 * 60 * 60 * 1000
                /\ r.store[key].value.outline = inflight[id].body.outline
                /\ outcome.throws => r.store[key].value.thesis = <<>>
    /\ \A k \in DOMAIN store :
            IsSessionKey(k) =>
                /\ "thesis" \in DOMAIN store[k].value
                /\ ~IsNullish(store[k].value.thesis)

\* a session was created although deriving its thesis threw
C6_Witness ==
    /\ ev.op = "session" /\ ev.phase = "complete"
    /\ ev.outcome.throws
    /\ ev.reply.status = 201
    /\ store[SessionKey(ev.reply.body.sessionId)].value.thesis = <<>>
    /\ store[SessionKey(ev.reply.body.sessionId)].expiresAt = now + 86400000

\* C7: POST /session with a missing or empty outline is answered 400
\* 'missing required field: outline', stores nothing and calls no model;
\* a missing style or tone causes no 400.
C7_OutlineRequired ==
    \A body \in SessionRequests :
        LET r == sessionRoute(store, now, body, issued)
        IN  IF IsNullish(body.outline) \/ body.outline = <<>>
            THEN /\ r.reply = Reply(400, [error |-> "missing required field: outline"])
                 /\ r.store = store
                 /\ r.wrote = NoKey
                 /\ r.pending = NoCall
            ELSE ~r.reply.sent

\* a request with an empty outline was answered 400 while the store holds
\* entries, and nothing is awaiting the model
C7_Witness ==
    /\ ev.op = "session" /\ ev.phase = "begin"
    /\ ev.body.outline = <<>>
    /\ ev.body.style = Undefined
    /\ ev.reply.status = 400
    /\ ev.call = NoCall
    /\ inflight = <<>>
    /\ store # <<>>

\* C8: deriveThesis is invoked exactly once for each successful POST
\* /session, and has completed before the session entry is stored and the
\* response sent; no /predict or /next request invokes it.
C8_ThesisOncePerSession ==
    /\ \A body \in PredictRequests :
            predictRoute(store, now, body).pending.fn # "deriveThesis"
    /\ \A body \in NextRequests :
            nextRoute(store, now, body).pending.fn # "deriveThesis"
    /\ \A body \in SessionRequests :
            LET r == sessionRoute(store, now, body, issued)
            IN  /\ r.store = store /\ r.wrote = NoKey
                /\ r.reply.sent => r.reply.status = 400
    /\ \A id \in DerivingThesis, outcome \in ThesisOutcomes :
            LET r == sessionResume(store, now, inflight[id].body,
                                   inflight[id].pending, outcome)
            IN  /\ inflight[id].pending.fn = "deriveThesis"
                /\ inflight[id].pending.key \notin DOMAIN store
                /\ r.pending = NoCall
                /\ r.wrote = inflight[id].pending.key
                /\ r.reply.status = 201
    /\ \A id \in DOMAIN inflight \ DerivingThesis :
            inflight[id].pending.fn # "deriveThesis"
    /\ issued = Cardinality(DOMAIN created) + Cardinality(DerivingThesis)
    /\ \A k \in DOMAIN store : IsSessionKey(k) => k[2] \in DOMAIN created

\* two sessions were created, each by its own deriveThesis call
C8_Witness ==
    /\ ev.op = "session" /\ ev.phase = "complete"
    /\ ev.call.fn = "deriveThesis"
    /\ ev.reply.status = 201
    /\ Cardinality(DOMAIN created) = 2
    /\ calls = 2

\* a step in which a session is stored stores it under a key never used
StoresUnderFreshKey ==
    (ev'.op = "session" /\ ev'.phase = "complete" /\ created' # created)
        => /\ ev'.call.key \notin DOMAIN store
           /\ ev'.call.sessionId \notin DOMAIN created

\* C9 (as stated): once stored, a session entry is never modified and never
\* deleted by any request, and every POST /session writes under a key that
\* did not exist before.
C9_SessionEntriesNeverTouched ==
    [][ /\ \A k \in DOMAIN store :
                IsSessionKey(k) => k \in DOMAIN store' /\ store'[k] = store[k]
        /\ StoresUnderFreshKey ]_vars

\* C9 (amended): once stored, a session's context and expiry are never
\* modified and no request deletes a session entry that has not expired;
\* the only removal is the eviction of an already expired entry by a
\* /predict or /next lookup; every POST /session writes under a key that did
\* not exist before.
C9_SessionEntriesImmutable ==
    [][ /\ \A k \in DOMAIN store :
                IsSessionKey(k) =>
                    \/ k \in DOMAIN store' /\ store'[k] = store[k]
                    \/ /\ k \notin DOMAIN store'
                       /\ now > store[k].expiresAt
                       /\ ev'.op \in {"predict", "next"} /\ ev'.phase = "begin"
                       /\ ev'.body.sessionId = k[2]
        /\ StoresUnderFreshKey ]_vars

\* a second session was stored while the first one was still in the store
C9_Witness ==
    /\ ev.op = "session" /\ ev.phase = "complete"
    /\ ev.call.sessionId = uuidv4(2)
    /\ SessionKey(uuidv4(1)) \in DOMAIN store
    /\ SessionKey(uuidv4(2)) \in DOMAIN store
    /\ store[SessionKey(uuidv4(1))].expiresAt < store[SessionKey(uuidv4(2))].expiresAt

\* what a bridge-mode /predict that misses the prediction cache does for
\* session id sid
BridgeLookups(sid) ==
    { predictRoute(store, now, body) :
        body \in { b \in PredictRequests :
                     /\ PredictsText(b) /\ b.mode = Bridge /\ b.sessionId = sid
                     /\ ~CacheHit(store, KeyOfPredict(b), now) } }

\* C10: a session id is non-existent, then active, then expired, in that
\* order: it is active from its POST /session, every lookup within 24 hours
\* of creation finds the context, every later lookup finds nothing, and an
\* expired id never becomes active again.
C10_SessionLifecycle ==
    /\ [](\A sid \in SessionIds \ DOMAIN created :
            /\ SessionKey(sid) \notin DOMAIN store
            /\ nextContext(store, SessionKey(sid), now) = EmptyContext
            /\ \A r \in BridgeLookups(sid) : r.reply = NotFound)
    /\ [](\A sid \in DOMAIN created :
            IF now <= created[sid].at + 86400 * 1000
            THEN /\ LiveSession(sid)
                 /\ nextContext(store, SessionKey(sid), now) = created[sid].context
                 /\ \A r \in BridgeLookups(sid) :
                        /\ r.pending.fn = "getBridgeSuggestion"
                        /\ r.pending.context = created[sid].context
            ELSE /\ ~LiveSession(sid)
                 /\ nextContext(store, SessionKey(sid), now) = EmptyContext
                 /\ \A r \in BridgeLookups(sid) : r.reply = NotFound)
    /\ [][ /\ now' >= now
           /\ \A sid \in DOMAIN created :
                sid \in DOMAIN created' /\ created'[sid] = created[sid] ]_vars

\* a /next lookup made exactly 24 hours after the session's creation found
\* its context
C10_Witness ==
    /\ ev.op = "next" /\ ev.phase = "begin"
    /\ ev.call.fn = "getNextSuggestion"
    /\ ev.body.sessionId \in DOMAIN created
    /\ now = created[ev.body.sessionId].at + 86400000
    /\ ev.call.context = created[ev.body.sessionId].context

\* C11: after set(k, v, ttl) at time t with no later set or delete on k,
\* get(k) returns v at once and until the entry expires, and returns null
\* at every time after t + ttl seconds.
C11_CacheRoundTrip ==
    \A k \in DOMAIN lastSet :
        CacheGet(store, k, now) =
            IF now > lastSet[k].at + lastSet[k].ttlSeconds * 1000
            THEN Null
            ELSE lastSet[k].value

\* a get made after the TTL of the latest set had elapsed returned null
C11_Witness ==
    /\ ev.op = "get"
    /\ ev.key \in DOMAIN lastSet
    /\ lastSet[ev.key].ttlSeconds = 1
    /\ now > lastSet[ev.key].at + 1000
    /\ lastSet[ev.key].at > 0
    /\ ev.result = Null

\* entry k is the same before and after the step
EntryKept(k) ==
    /\ k \in DOMAIN store <=> k \in DOMAIN store'
    /\ k \in DOMAIN store => store'[k] = store[k]

\* C12: get(k) on an expired entry removes exactly entry k and returns
\* null, leaving every other entry untouched; get on a live or missing key
\* changes nothing; nothing but get(k), set(k, ...) or delete(k) removes or
\* alters entry k, so an expired entry that is not read stays in the store.
C12_GetEvictsOnlyItsKey ==
    /\ [](\A key \in CacheKeys :
            LET after == CacheAfterGet(store, key, now)
            IN  IF key \in DOMAIN store /\ now > store[key].expiresAt
                THEN /\ CacheGet(store, key, now) = Null
                     /\ DOMAIN after = DOMAIN store \ {key}
                     /\ \A k \in DOMAIN after : after[k] = store[k]
                ELSE after = store)
    /\ [][ \A k \in CacheKeys :
            \/ EntryKept(k)
            \/ /\ ev'.key = k
               /\ \/ ev'.op \in {"set", "delete"}
                  \/ /\ ev'.op = "get"
                     /\ now > store[k].expiresAt
                     /\ ev'.result = Null
                     /\ k \notin DOMAIN store' ]_vars

\* a get evicted the expired entry it read while another expired entry,
\* not read, is still in the store
C12_Witness ==
    /\ ev.op = "get"
    /\ ev.result = Null
    /\ ev.key \in DOMAIN lastSet
    /\ ev.key \notin DOMAIN store
    /\ \E k \in DOMAIN store : k # ev.key /\ now > store[k].expiresAt

\* some entry of the store has expired and is still held
HoldsExpired == \E k \in DOMAIN store : now > store[k].expiresAt

\* C13: a /predict request with valid fields and precedingText '' is
\* answered 200 {mode, suggestion: '', confidence: 0.85, cached: false}
\* without a cache read or write, a session lookup or a model call: the
\* cache, expired entries included, is left as it was.
C13_EmptyTextShortCircuits ==
    \A body \in PredictRequests :
        (/\ body.sessionId \notin {Undefined, Null}
         /\ body.mode \in {Word, Bridge}
         /\ body.precedingText = <<>>)
            => LET r == predictRoute(store, now, body)
               IN  /\ r.reply = Reply(200, [mode |-> body.mode,
                                            suggestion |-> <<>>,
                                            confidence |-> "0.85",
                                            cached |-> FALSE])
                   /\ r.store = store
                   /\ r.wrote = NoKey
                   /\ r.pending = NoCall

\* a bridge request with empty text was answered 200 after its session had
\* expired, and the expired session entry is still in the store
C13_Witness ==
    /\ ev.op = "predict" /\ ev.phase = "begin"
    /\ ev.body.precedingText = <<>>
    /\ ev.reply.status = 200
    /\ ~ev.reply.body.cached
    /\ SessionKey(ev.body.sessionId) \in DOMAIN store
    /\ now > store[SessionKey(ev.body.sessionId)].expiresAt

Absent(v) == v \in {Undefined, Null}

\* the handler answered 400 with this reason and did nothing else
Rejects400(r, reason) ==
    /\ r.reply = Reply(400, [error |-> reason])
    /\ r.store = store
    /\ r.wrote = NoKey
    /\ r.pending = NoCall

\* C14: a /predict request whose sessionId, mode or precedingText is absent
\* or null gets 400 'missing required field: <field>' for the first missing
\* field in the order sessionId, mode, precedingText; with all three present
\* and a mode outside {word, bridge} it gets 400 'mode must be word or
\* bridge'; validation precedes the empty-text short-circuit, the cache is
\* unchanged and no model call is made.
C14_PredictValidation ==
    \A body \in PredictRequests :
        LET r == predictRoute(store, now, body)
        IN  IF Absent(body.sessionId)
            THEN Rejects400(r, "missing required field: sessionId")
            ELSE IF Absent(body.mode)
            THEN Rejects400(r, "missing required field: mode")
            ELSE IF Absent(body.precedingText)
            THEN Rejects400(r, "missing required field: precedingText")
            ELSE IF body.mode \notin {Word, Bridge}
            THEN Rejects400(r, "mode must be word or bridge")
            ELSE r.reply.status # 400

\* a request with an unknown mode and empty text was answered 400 for its
\* mode while the store holds entries
C14_Witness ==
    /\ ev.op = "predict" /\ ev.phase = "begin"
    /\ ev.body.mode = <<"essay">>
    /\ ev.body.precedingText = <<>>
    /\ ev.reply = Reply(400, [error |-> "mode must be word or bridge"])
    /\ store # <<>>

\* the session entry of sessionId is in store after as it is in the store now
SessionEntryKept(sessionId, after) ==
    SessionKey(sessionId) \in DOMAIN store
        => /\ SessionKey(sessionId) \in DOMAIN after
           /\ after[SessionKey(sessionId)] = store[SessionKey(sessionId)]

\* C15: a word-mode /predict request never reads the session entry and is
\* never answered 404: with an unknown or expired sessionId and non-empty
\* text it is answered 200 with a suggestion.
C15_WordModeNeedsNoSession ==
    /\ \A body \in PredictRequests :
            (PredictsText(body) /\ body.mode = Word) =>
                LET r == predictRoute(store, now, body)
                IN  /\ SessionEntryKept(body.sessionId, r.store)
                    /\ IF r.reply.sent
                       THEN /\ r.reply.status = 200
                            /\ r.reply.body.cached
                       ELSE /\ r.pending.fn = "getWordSuggestion"
                            /\ "context" \notin DOMAIN r.pending
    /\ \A id \in DOMAIN inflight, outcome \in SuggestionOutcomes :
            (inflight[id].op = "predict" /\ inflight[id].body.mode = Word) =>
                LET r == predictResume(store, now, inflight[id].body,
                                       inflight[id].pending, outcome)
                IN  /\ r.reply.status = 200
                    /\ "suggestion" \in DOMAIN r.reply.body
                    /\ SessionEntryKept(inflight[id].body.sessionId, r.store)

\* a word request made after its session had expired completed with 200,
\* and the expired session entry is still in the store
C15_Witness ==
    /\ ev.op = "predict" /\ ev.phase = "complete"
    /\ ev.body.mode = Word
    /\ ev.reply.status = 200
    /\ ev.reply.body.suggestion = <<"y">>
    /\ SessionKey(ev.body.sessionId) \in DOMAIN store
    /\ now > store[SessionKey(ev.body.sessionId)].expiresAt

\* the store as a system without prediction cache sees it: every lookup of
\* a prediction misses
WithoutPredictions(s) ==
    [k \in {j \in DOMAIN s : j[1] # "predict:"} |-> s[k]]

\* the prediction just stored was generated by the call ev.call
JustStored ==
    /\ ev.op = "predict" /\ ev.phase = "complete"
    /\ ev.call.key \in DOMAIN store

\* C16: the prediction cache is transparent: the status and the suggestion
\* of every /predict request are those of a system in which every lookup
\* misses.  A request served from the cache would, without the cache, not
\* be refused, and would put to the model the very call whose result was
\* stored (the model being a function of the call it is given).
C16_CacheIsTransparent ==
    \A body \in PredictRequests :
        LET r == predictRoute(store, now, body)
            m == predictRoute(WithoutPredictions(store), now, body)
        IN  IF r.reply.sent /\ r.reply.status = 200 /\ r.reply.body.cached
            THEN /\ ~m.reply.sent
                 /\ (JustStored /\ ev.call.key = KeyOfPredict(body))
                        => m.pending = ev.call
            ELSE r.reply = m.reply /\ r.pending = m.pending

\* the position a /predict body asks for: "middle" when it gives none
PositionOf(body) ==
    IF body.position = Undefined THEN <<"middle">> ELSE body.position

\* C17: only identical requests are memoised: a /predict response served
\* from the cache carries a suggestion generated for a request with the
\* same sessionId, the same truncated precedingText, the same mode and the
\* same position.  Stated for the entry just stored by the request ev.body.
C17_OnlyIdenticalRequestsMemoised ==
    JustStored =>
        \A body \in PredictRequests :
            LET r == predictRoute(store, now, body)
            IN  (/\ PredictsText(body)
                 /\ KeyOfPredict(body) = ev.call.key
                 /\ r.reply.sent /\ r.reply.status = 200 /\ r.reply.body.cached)
                    => /\ body.sessionId = ev.body.sessionId
                       /\ truncatePrecedingText(body.precedingText)
                            = truncatePrecedingText(ev.body.precedingText)
                       /\ body.mode = ev.body.mode
                       /\ PositionOf(body) = PositionOf(ev.body)

\* C18: hashKey separates different argument tuples: swapping two unequal
\* arguments changes the key, and two different tuples of parts never give
\* the same key, parts containing '|' included.  Stated for the tuple just
\* hashed against every other tuple.
C18_HashKeySeparatesTuples ==
    ev.op = "hashKey" =>
        /\ hashKey(ev.parts) = ev.result
        /\ \A other \in HashInputs :
                other # ev.parts => hashKey(other) # ev.result
        /\ (Len(ev.parts) = 2 /\ ev.parts[1] # ev.parts[2])
                => hashKey(<<ev.parts[2], ev.parts[1]>>) # ev.result

\* the pair a /next body is cached under: the last 500 characters of its
\* lastParagraph and its currentSection ('' when it gives none)
PairOfNext(body) ==
    <<SliceLast(body.lastParagraph, 500), Coalesce(body.currentSection, <<>>)>>

\* C19: two /next requests for one sessionId whose (last 500 characters of
\* lastParagraph, currentSection) pairs differ never share a cache entry: a
\* result cached for one pair is never returned with cached=true for
\* another.  Stated for the entry just stored by the request ev.body.
C19_NextPairsNeverShareEntry ==
    (ev.op = "next" /\ ev.phase = "complete") =>
        \A body \in NextRequests :
            (/\ ~Falsy(body.sessionId) /\ ~IsNullish(body.lastParagraph)
             /\ body.sessionId = ev.body.sessionId
             /\ PairOfNext(body) # PairOfNext(ev.body))
                => LET r == nextRoute(store, now, body)
                   IN  ~(r.reply.sent /\ r.reply.status = 200
                            /\ r.reply.body.cached)

\* the template a prompt was built from, named by its first sentence
TemplateOf(prompt) ==
    CHOOSE template \in DOMAIN Intro : prompt.system[1] = Fixed(Intro[template])

\* a prompt with the interpolated values taken out
Skeleton(segments) ==
    [i \in 1..Len(segments) |->
        IF "slot" \in DOMAIN segments[i] THEN [slot |-> segments[i].slot]
        ELSE segments[i]]

PromptSkeleton(prompt) ==
    [system |-> Skeleton(prompt.system), user |-> Skeleton(prompt.user)]

\* every interpolated value is the argument of that name, as given
SlotsFilledFrom(segments, args) ==
    \A i \in 1..Len(segments) :
        "slot" \in DOMAIN segments[i]
            => segments[i].value = args[segments[i].slot]

\* the template the stage and the position name
TemplateNamed(stage, position) ==
    CASE stage = Start -> "start"
      [] stage = Establish -> "establish"
      [] stage = Continue /\ position = Opening -> "opening"
      [] stage = Continue /\ position = Middle -> "middle"
      [] stage = Continue /\ position = Closing -> "closing"
      [] OTHER -> "unnamed"

\* C20: promptBuilder's template is a function of (stage, position) alone:
\* stage start gives the start template and stage establish the establish
\* template for every position, stage continue gives the opening, middle or
\* closing template by position; exactly five templates are reached; outline,
\* style, tone, thesis and precedingText only fill placeholders; the start
\* template's user message is a fixed instruction without precedingText.
C20_TemplateByStageAndPosition ==
    ev.op = "promptBuilder" =>
        LET args == ev.args
            prompt == ev.result
        IN  /\ TemplateNamed(args.stage, args.position) # "unnamed"
                => TemplateOf(prompt) = TemplateNamed(args.stage, args.position)
            /\ \A other \in PromptInputs :
                    /\ (other.stage = args.stage /\ other.position = args.position)
                            => TemplateOf(promptBuilder(other)) = TemplateOf(prompt)
                    /\ (/\ TemplateOf(promptBuilder(other)) = TemplateOf(prompt)
                        /\ Falsy(other.thesis) <=> Falsy(args.thesis))
                            => PromptSkeleton(promptBuilder(other))
                                    = PromptSkeleton(prompt)
            /\ Cardinality({ TemplateOf(promptBuilder(other)) :
                                other \in PromptInputs }) = 5
            /\ Cardinality({ PromptSkeleton(promptBuilder(other)) :
                                other \in { a \in PromptInputs :
                                                Falsy(a.thesis) } }) = 5
            /\ SlotsFilledFrom(prompt.system, args)
            /\ SlotsFilledFrom(prompt.user, args)
            /\ args.stage = Start
                => /\ prompt.user
                        = <<Fixed("Give me the first words to start this piece.")>>
                   /\ \A text \in {<<>>, <<"a">>} :
                        promptBuilder([args EXCEPT !.precedingText = text])
                            = prompt

\* the start template was built for a closing position, from a thesis and a
\* text that its user message leaves out
C20_Witness ==
    /\ ev.op = "promptBuilder"
    /\ ev.args.stage = Start
    /\ ev.args.position = Closing
    /\ ev.args.precedingText = <<"a">>
    /\ ev.args.thesis = <<"T">>
    /\ TemplateOf(ev.result) = "start"
    /\ ev.result.user = <<Fixed("Give me the first words to start this piece.")>>
    /\ \E i \in 1..Len(ev.result.system) :
            ev.result.system[i] = Slot("thesis", <<"T">>)

StagedPredictBodies ==
    [sessionId : {<<"uuid1">>}, mode : {Bridge}, precedingText : {<<"a">>},
     position : {Undefined, Closing}, stage : {Start, Continue}]

StageOf(body) == IF "stage" \in DOMAIN body THEN body.stage ELSE Undefined

\* C22: on a bridge-mode cache miss in /predict, the stage given to the
\* prompt selector is the caller's stage when the request carries one and
\* otherwise the stage classified from precedingText (0 words start, 1 to 19
\* establish, 20 or more continue); the position is the caller's position
\* or, when omitted, 'middle'.
C22_BridgePromptStageAndPosition ==
    \A body \in PredictRequests \cup StagedPredictBodies :
        LET r == predictRoute(store, now, body)
        IN  r.pending.fn = "getBridgeSuggestion"
                => /\ r.pending.stage
                        = Coalesce(StageOf(body), detectStage(body.precedingText))
                   /\ r.pending.position = PositionOf(body)
                   /\ TemplateOf(bridgePrompt(r.pending))
                        = selectTemplate(
                            Coalesce(StageOf(body), detectStage(body.precedingText)),
                            PositionOf(body))

\* the text that opens the thesis line of a prompt
CoreArgument == Fixed("The article's core argument: \"")

\* the system prompt just built, and the thesis it was built with
BuiltSystem == ev.result.system
BuiltThesis ==
    IF ev.op = "promptBuilder" THEN ev.args.thesis ELSE ThesisOf(ev.args.context)

CoreArgumentAt == { i \in 1..Len(BuiltSystem) : BuiltSystem[i] = CoreArgument }

\* segment i opens the line that follows the outline's line
FollowsOutlineLine(i) ==
    /\ i > 3
    /\ BuiltSystem[i - 1] = LineBreak
    /\ BuiltSystem[i - 2] = Fixed("\"")
    /\ BuiltSystem[i - 3] = Slot("outline", IF ev.op = "promptBuilder"
                                            THEN ev.args.outline
                                            ELSE ev.args.context.outline)

\* C23: for each of the five bridge templates and the /next template, a
\* prompt built with thesis '' contains no 'core argument' text, and a prompt
\* built with a non-empty thesis contains exactly one 'The article's core
\* argument' line, on the line immediately after the outline line.
C23_ThesisLineFollowsOutline ==
    ev.op \in {"promptBuilder", "nextPrompt"} =>
        /\ BuiltThesis = <<>> => CoreArgumentAt = {}
        /\ ~Falsy(BuiltThesis)
            => /\ Cardinality(CoreArgumentAt) = 1
               /\ \A i \in CoreArgumentAt :
                    /\ FollowsOutlineLine(i)
                    /\ BuiltSystem[i + 1] = Slot("thesis", BuiltThesis)

\* C24: detectStage is a total function of the word count w of the preceding
\* text, the words being the non-empty pieces between runs of white space:
\* w = 0 (white space only included) gives start, 1 <= w <= 19 establish,
\* w >= 20 continue.
C24_StageByWordCount ==
    ev.op = "detectStage" =>
        /\ ev.result \in {Start, Establish, Continue}
        /\ ev.words = 0 <=> ev.result = Start
        /\ (1 <= ev.words /\ ev.words <= 19) <=> ev.result = Establish
        /\ ev.words >= 20 <=> ev.result = Continue
        /\ \A shape \in TextShapes :
                detectStage(TextOf(ev.words, shape)) = ev.result

\* a text of white space only was classified, and so was one of 20 words
\* with runs of white space between them
C24_Witness ==
    /\ ev.op = "detectStage"
    /\ \/ ev.words = 0 /\ ev.shape = "padded" /\ ev.result = Start
          /\ TextOf(0, "padded") # <<>>
       \/ ev.words = 20 /\ ev.shape = "wide" /\ ev.result = Continue

\* the positions in the order of the document
PositionRank(position) ==
    CASE position = Opening -> 1 [] position = Middle -> 2 [] OTHER -> 3

\* C25: detectPosition is a total, monotonic function of the word count w of
\* the whole document: w < 50 gives opening, 50 <= w < 300 middle, w >= 300
\* closing, and a larger w never yields an earlier position.
C25_PositionByWordCount ==
    ev.op = "detectPosition" =>
        /\ ev.result \in {Opening, Middle, Closing}
        /\ ev.words < 50 <=> ev.result = Opening
        /\ (50 <= ev.words /\ ev.words < 300) <=> ev.result = Middle
        /\ ev.words >= 300 <=> ev.result = Closing
        /\ \A n \in PositionWordCounts, shape \in TextShapes :
                n >= ev.words
                    => PositionRank(detectPosition(TextOf(n, shape)))
                            >= PositionRank(ev.result)

\* a document of exactly 300 words, white space around them, was classified
C25_Witness ==
    /\ ev.op = "detectPosition"
    /\ ev.words = 300
    /\ ev.shape = "wide"
    /\ ev.result = Closing

\* C26: truncatePrecedingText returns its input unchanged when it has at most
\* 500 characters and otherwise exactly the last 500 characters; the result
\* is a suffix of the input of length min(len, 500), and applying the
\* function twice gives the same as applying it once.
C26_TruncateKeepsTail ==
    ev.op = "truncatePrecedingText" =>
        LET text == ev.text
            result == ev.result
            dropped == Len(text) - Len(result)
        IN  /\ Len(text) <= 500 => result = text
            /\ Len(text) > 500 => Len(result) = 500
            /\ dropped >= 0
            /\ \A i \in 1..Len(result) : result[i] = text[dropped + i]
            /\ truncatePrecedingText(result) = result

\* a text of 600 characters was cut to its last 500, which differ from its
\* first 500
C26_Witness ==
    /\ ev.op = "truncatePrecedingText"
    /\ Len(ev.text) = 600
    /\ Len(ev.result) = 500
    /\ ev.result[1] = ev.text[101]
    /\ ev.result # SubSeq(ev.text, 1, 500)

\* every character of s from position lo to position hi is in the set
AllIn(s, lo, hi, set) == \A i \in lo..hi : s[i] \in set

\* C27: postProcessSuggestion returns the whitespace-trimmed input with its
\* maximal trailing run of . , ! ? removed and nothing else changed:
\* punctuation that is not part of that final run stays in place.  The input
\* is white space, the result, a run of punctuation and white space again,
\* where the result does not end in punctuation and the trimmed text neither
\* starts nor ends with white space.
C27_StripsOnlyTheTrailingRun ==
    ev.op = "postProcessSuggestion" =>
        LET raw == ev.raw
            n == Len(raw)
        IN  \E a \in 1..(n + 1) : \E b \in (a - 1)..n : \E c \in b..n :
                /\ AllIn(raw, 1, a - 1, WhiteSpace)
                /\ ev.result = SubSeq(raw, a, b)
                /\ AllIn(raw, b + 1, c, TrailingPunctuation)
                /\ AllIn(raw, c + 1, n, WhiteSpace)
                /\ a <= c => (raw[a] \notin WhiteSpace /\ raw[c] \notin WhiteSpace)
                /\ a <= b => raw[b] \notin TrailingPunctuation

\* a suggestion with a comma inside and a run of punctuation at its end,
\* white space around it, came back with the comma and without the run
C27_Witness ==
    /\ ev.op = "postProcessSuggestion"
    /\ ev.raw = <<"\n", " ", "a", ",", "b", ".", "?", "!", ",", " ", "\n">>
    /\ ev.result = <<"a", ",", "b">>

\* the raw text the model answered with, when its first block is a text
ParsedText == ev.outcome.content[1].text

AnsweredText ==
    /\ ev.op = "getNextSuggestion"
    /\ ~ev.outcome.throws
    /\ FirstIsText(ev.outcome.content)

Opens == { i \in 1..Len(ParsedText) : ParsedText[i] = "{" }
Closes == { i \in 1..Len(ParsedText) : ParsedText[i] = "}" }
FirstOpen == CHOOSE i \in Opens : \A j \in Opens : i <= j
LastClose == CHOOSE i \in Closes : \A j \in Closes : j <= i

\* the text from the first '{' to the last '}' is an object with members
BracedMembers ==
    /\ Opens # {} /\ Closes # {}
    /\ LastClose = FirstOpen + 2
    /\ ParsedText[FirstOpen + 1] \in DOMAIN JsonMembers

BracedObject == JsonMembers[ParsedText[FirstOpen + 1]]

IsString(v) == ~IsNullish(v) /\ v # NotAString

\* C28 as stated: getNextSuggestion parses exactly the text from the first
\* '{' to the last '}': when that is valid JSON with string phrase and angle
\* those values are returned whatever surrounds the braces; when there is no
\* brace pair, the last '}' precedes the first '{', the text between is not
\* valid JSON, or a field is not a string, it resolves to {phrase: '',
\* angle: ''}; it never throws.
C28_ParsesFirstToLastBrace ==
    ev.op = "getNextSuggestion" =>
        /\ ~ev.result.rejected
        /\ ~AnsweredText => ev.result.value = EmptyNext
        /\ AnsweredText =>
            IF BracedMembers /\ IsString(BracedObject.phrase)
                             /\ IsString(BracedObject.angle)
            THEN ev.result.value = [phrase |-> BracedObject.phrase,
                                    angle |-> BracedObject.angle]
            ELSE ev.result.value = EmptyNext

\* a field as getNextSuggestion gives it back: '' for a field that is null
\* or absent, else the trimmed string, the phrase without one final . , ! ?
GivenBack(field, v) ==
    IF IsNullish(v) THEN <<>>
    ELSE IF field = "phrase" /\ Trim(v) # <<>>
                             /\ Trim(v)[Len(Trim(v))] \in TrailingPunctuation
    THEN SubSeq(Trim(v), 1, Len(Trim(v)) - 1)
    ELSE Trim(v)

\* C28, amended: the values are returned trimmed, the phrase without one
\* final . , ! or ?; a field that is null or absent comes back as '' and
\* leaves the other field as it is; a field of another type that is no
\* string, like every other failure, gives {phrase: '', angle: ''}.
C28_ParsesFirstToLastBraceFieldwise ==
    ev.op = "getNextSuggestion" =>
        /\ ~ev.result.rejected
        /\ ~AnsweredText => ev.result.value = EmptyNext
        /\ AnsweredText =>
            IF BracedMembers /\ BracedObject.phrase # NotAString
                             /\ BracedObject.angle # NotAString
            THEN ev.result.value
                    = [phrase |-> GivenBack("phrase", BracedObject.phrase),
                       angle |-> GivenBack("angle", BracedObject.angle)]
            ELSE ev.result.value = EmptyNext

\* an object between noise was parsed, and so was a text whose first '}' is
\* not its last
C28_Witness ==
    /\ AnsweredText
    /\ \/ /\ ParsedText = <<"n", "{", "both", "}", "n">>
          /\ ev.result.value = [phrase |-> <<"g", "o">>, angle |-> <<"x", ".">>]
       \/ /\ ParsedText = <<"{", "both", "}", "n", "}">>
          /\ ev.result.value = EmptyNext

\* the /predict calls in flight whose key another request stored meanwhile:
\* the key was absent when the call began, its handler having missed
OverlappedPredicts ==
    { id \in DOMAIN inflight :
        /\ inflight[id].op = "predict"
        /\ inflight[id].pending.key \in DOMAIN store }

\* C29: concurrent writes to one cache key are last-write-wins: when two
\* requests with the same key are in flight together and both miss, each
\* performs its own set, and after both complete the cache holds exactly the
\* value and the expiry written by the later set, with no merging; a
\* following identical request within the TTL gets that value with
\* cached=true.  Stated for every call in flight whose key was stored
\* meanwhile, and every answer of the model to it.
C29_LastWriteWins ==
    \A id \in OverlappedPredicts : \A outcome \in SuggestionOutcomes :
        LET body == inflight[id].body
            key == inflight[id].pending.key
            r == predictResume(store, now, body, inflight[id].pending, outcome)
        IN  /\ r.reply.sent /\ r.reply.status = 200 /\ ~r.reply.body.cached
            /\ r.wrote = key
            /\ r.store[key] = [value |-> r.reply.body.suggestion,
                               expiresAt |-> now + 300 * 1000]
            /\ DOMAIN r.store = DOMAIN store
            /\ \A k \in DOMAIN store \ {key} : r.store[k] = store[k]
            /\ \A t \in {now, now + 300 * 1000} :
                LET again == predictRoute(r.store, t, body)
                IN  /\ again.reply.sent /\ again.reply.status = 200
                    /\ again.reply.body.cached
                    /\ again.reply.body.suggestion = r.reply.body.suggestion
                    /\ again.store = r.store

\* of two requests in flight together for one key the first to complete
\* stored '' after a throw, and the second has now stored its suggestion
\* over it
C29_Witness ==
    /\ ev.op = "predict" /\ ev.phase = "complete"
    /\ ~ev.outcome.throws
    /\ ev.reply.status = 200
    /\ ev.reply.body.suggestion = <<"y">>
    /\ ev.call.key \in DOMAIN failed
    /\ failed[ev.call.key].overlapped
    /\ calls = 2 /\ inflight = <<>>
    /\ store[ev.call.key].value = <<"y">>
    /\ store[ev.call.key].expiresAt = now + 300 * 1000

\* the last character of the text once the spaces at its end are dropped,
\* none for a text of spaces only
LastAfterSpaces(text) ==
    IF \E i \in 1..Len(text) : text[i] # " "
    THEN text[CHOOSE i \in 1..Len(text) :
                /\ text[i] # " "
                /\ \A j \in (i + 1)..Len(text) : text[j] = " "]
    ELSE "none"

Again(s, t, id) ==
    IF inflight[id].op = "predict" THEN predictRoute(s, t, inflight[id].body)
    ELSE nextRoute(s, t, inflight[id].body)

\* the /predict and /next calls in flight
Predicting == { id \in DOMAIN inflight : inflight[id].op \in {"predict", "next"} }

\* C32 (as stated): within one TTL window of a prediction key at most one
\* model call is made for it, also when identical requests overlap: a
\* request that arrives while an identical request is still awaiting the
\* model does not start a second model call.
C32_OneCallPerKeyAndWindow ==
    \A id \in Predicting : Again(store, now, id).pending = NoCall

\* C32 (amended): once a prediction is stored under a key, no request with
\* that key starts a model call until the entry has expired, whatever the
\* value stored; identical requests that overlap are not deduplicated: a
\* request that arrives while an identical request is still awaiting the
\* model, and before any prediction is stored under their key, starts a
\* second model call for the same key (in bridge mode, if the session
\* still lives).
C32_OneCallPerStoredEntry ==
    /\ \A body \in PredictRequests :
            (/\ PredictsText(body)
             /\ KeyOfPredict(body) \in DOMAIN store
             /\ now <= store[KeyOfPredict(body)].expiresAt) =>
                \A t \in {now, store[KeyOfPredict(body)].expiresAt} :
                    predictRoute(store, t, body).pending = NoCall
    /\ \A body \in NextRequests :
            LET r == nextRoute(store, now, body)
            IN  r.pending.fn # "none" => ~CacheHit(store, r.pending.key, now)
    /\ \A id \in Predicting :
            (/\ inflight[id].pending.key \notin DOMAIN store
             /\ inflight[id].pending.fn = "getBridgeSuggestion"
                    => LiveSession(inflight[id].body.sessionId)) =>
                LET r == Again(store, now, id)
                IN  /\ ~r.reply.sent
                    /\ r.pending.fn = inflight[id].pending.fn
                    /\ r.pending.key = inflight[id].pending.key

\* a second identical request arrived while the first was awaiting the
\* model, and started a model call of its own for the same key
C32_Witness ==
    /\ ev.op = "predict" /\ ev.phase = "begin"
    /\ ev.id = 2
    /\ 1 \in DOMAIN inflight
    /\ inflight[1].body = ev.body
    /\ inflight[1].pending.key = ev.call.key
    /\ ev.call.key \notin DOMAIN store

\* the /predict calls in flight under whose key a live entry is stored
LiveOverlappedPredicts ==
    { id \in OverlappedPredicts : CacheHit(store, inflight[id].pending.key, now) }

\* the reply of the call in flight when the model answers with outcome
ResumedWith(id, outcome) ==
    predictResume(store, now, inflight[id].body, inflight[id].pending, outcome)

\* C33 (as stated): predictions are a function of their cache key while the
\* entry lives: every 200 response to requests with the same key between
\* the first store and the expiry carries the same suggestion, cached or
\* not, and re-computing and overwriting an entry never changes the value
\* later requests receive.  Stated for every request that may be answered
\* while an entry lives under its key.
C33_OneSuggestionPerLiveKey ==
    /\ \A body \in PredictRequests :
            (PredictsText(body) /\ CacheHit(store, KeyOfPredict(body), now)) =>
                predictRoute(store, now, body).reply.body.suggestion
                    = store[KeyOfPredict(body)].value
    /\ \A id \in LiveOverlappedPredicts : \A outcome \in SuggestionOutcomes :
            LET r == ResumedWith(id, outcome)
            IN  /\ r.reply.body.suggestion = store[inflight[id].pending.key].value
                /\ r.store[inflight[id].pending.key].value
                        = store[inflight[id].pending.key].value

\* C33 (amended): while an entry lives, every response served from the
\* cache carries the value most recently stored under its key, and a
\* response with cached=false carries the value its own request stores; so
\* the responses for one key between two consecutive stores carry the same
\* suggestion.  A request that was awaiting the model when the entry was
\* stored re-computes and overwrites it, and the value it stores, which can
\* differ from the one it replaces, is what later requests receive.
C33_SuggestionOfLatestStore ==
    /\ \A body \in PredictRequests :
            (PredictsText(body) /\ CacheHit(store, KeyOfPredict(body), now)) =>
                \A t \in {now, store[KeyOfPredict(body)].expiresAt} :
                    LET r == predictRoute(store, t, body)
                    IN  /\ r.reply.sent /\ r.reply.status = 200
                        /\ r.reply.body.cached
                        /\ r.reply.body.suggestion = store[KeyOfPredict(body)].value
                        /\ r.store = store
    /\ \A id \in DOMAIN inflight : \A outcome \in SuggestionOutcomes :
            inflight[id].op = "predict" =>
                LET r == ResumedWith(id, outcome)
                    key == inflight[id].pending.key
                    later == predictRoute(r.store, now, inflight[id].body)
                IN  /\ r.reply.status = 200 /\ ~r.reply.body.cached
                    /\ key \in DOMAIN r.store
                    /\ r.store[key].value = r.reply.body.suggestion
                    /\ later.reply.sent /\ later.reply.body.cached
                    /\ later.reply.body.suggestion = r.reply.body.suggestion
    /\ \A id \in LiveOverlappedPredicts :
            \E outcome \in SuggestionOutcomes :
                ResumedWith(id, outcome).store[inflight[id].pending.key].value
                    # store[inflight[id].pending.key].value

\* of two identical word requests in flight together the first stored ''
\* after a throw, and the second has now replaced it with its suggestion
C33_Witness ==
    /\ ev.op = "predict" /\ ev.phase = "complete"
    /\ ev.body.mode = Word
    /\ ev.call.key \in DOMAIN failed
    /\ failed[ev.call.key].overlapped
    /\ failed[ev.call.key].body = ev.body
    /\ failed[ev.call.key].at = now
    /\ ev.reply.status = 200 /\ ~ev.reply.body.cached
    /\ ev.reply.body.suggestion = <<"y">>
    /\ store[ev.call.key].value = <<"y">>

\* the three kinds of value the cache holds
IsContext(v) == DOMAIN v = {"outline", "style", "tone", "thesis"}
IsSuggestion(v) == DOMAIN v = 1..Len(v)
IsPhraseAndAngle(v) ==
    /\ DOMAIN v = {"phrase", "angle"}
    /\ IsSuggestion(v.phrase) /\ IsSuggestion(v.angle)

\* the kind of value that belongs under a key
KindFits(k, v) ==
    /\ k[1] \in {"session:", "predict:", "next:"}
    /\ k[1] = "session:" => IsContext(v)
    /\ k[1] = "predict:" => IsSuggestion(v)
    /\ k[1] = "next:" => IsPhraseAndAngle(v)

\* a handler's run up to its await writes nothing: it leaves every entry as
\* it was or evicts it
WritesNothing(r) ==
    /\ r.wrote = NoKey
    /\ \A k \in DOMAIN r.store : k \in DOMAIN store /\ r.store[k] = store[k]

\* a handler's run from its await writes at most the key of its call, which
\* has the prefix given
WritesOnly(r, id, prefix) ==
    /\ r.wrote \in {NoKey, inflight[id].pending.key}
    /\ r.wrote # NoKey => /\ r.wrote[1] = prefix
                          /\ KindFits(r.wrote, r.store[r.wrote].value)
    /\ \A k \in DOMAIN r.store \ {r.wrote} :
            k \in DOMAIN store /\ r.store[k] = store[k]

\* C34: every cache key starts with exactly one of 'session:', 'predict:'
\* and 'next:'; session: entries hold a context object and are written only
\* by POST /session, predict: entries hold a string, next: entries hold a
\* {phrase, angle} pair, and no handler writes or reads a value of one kind
\* under a key of another kind.  Stated for the entries stored, for every
\* request that can arrive and for every answer to every call in flight.
C34_KeysAndKinds ==
    /\ \A k \in DOMAIN store : KindFits(k, store[k].value)
    /\ \A body \in SessionRequests : WritesNothing(sessionRoute(store, now, body, issued))
    /\ \A body \in PredictRequests :
            LET r == predictRoute(store, now, body)
            IN  /\ WritesNothing(r)
                /\ (r.reply.sent /\ r.reply.status = 200 /\ r.reply.body.cached)
                        => /\ KeyOfPredict(body)[1] = "predict:"
                           /\ r.reply.body.suggestion = store[KeyOfPredict(body)].value
                /\ r.pending.fn # "none" => r.pending.key[1] = "predict:"
                /\ r.pending.fn = "getBridgeSuggestion"
                        => /\ r.pending.context
                                = store[<<"session:", body.sessionId>>].value
                           /\ IsContext(r.pending.context)
    /\ \A body \in NextRequests :
            LET r == nextRoute(store, now, body)
            IN  /\ WritesNothing(r)
                /\ (r.reply.sent /\ r.reply.status = 200)
                        => /\ r.reply.body.cached
                           /\ \E k \in DOMAIN store :
                                /\ k[1] = "next:"
                                /\ r.reply.body.phrase = store[k].value.phrase
                                /\ r.reply.body.angle = store[k].value.angle
                /\ r.pending.fn # "none"
                        => /\ r.pending.key[1] = "next:"
                           /\ \/ r.pending.context = EmptyContext
                              \/ /\ <<"session:", body.sessionId>> \in DOMAIN store
                                 /\ r.pending.context
                                        = store[<<"session:", body.sessionId>>].value
    /\ \A id \in DOMAIN inflight :
            /\ inflight[id].op = "session" =>
                    \A outcome \in ThesisOutcomes :
                        WritesOnly(sessionResume(store, now, inflight[id].body,
                                                 inflight[id].pending, outcome),
                                   id, "session:")
            /\ inflight[id].op = "predict" =>
                    \A outcome \in SuggestionOutcomes :
                        WritesOnly(predictResume(store, now, inflight[id].body,
                                                 inflight[id].pending, outcome),
                                   id, "predict:")
            /\ inflight[id].op = "next" =>
                    \A outcome \in NextOutcomes :
                        WritesOnly(nextResume(store, now, inflight[id].body,
                                              inflight[id].pending, outcome),
                                   id, "next:")

\* a {phrase, angle} pair has just been stored under a next: key beside the
\* context of the session, which is stored under its session: key
C34_Witness ==
    /\ ev.op = "next" /\ ev.phase = "complete"
    /\ ev.call.key[1] = "next:"
    /\ ev.call.key \in DOMAIN store
    /\ store[ev.call.key].value.phrase # <<>>
    /\ <<"session:", ev.body.sessionId>> \in DOMAIN store
    /\ store[<<"session:", ev.body.sessionId>>].value.outline = <<"o">>

\* a cache hit of body at instant t is read-only
HitIsReadOnly(body, t) ==
    LET r == predictRoute(store, t, body)
    IN  /\ r.reply.sent /\ r.reply.status = 200 /\ r.reply.body.cached
        /\ r.reply.body.suggestion = store[KeyOfPredict(body)].value
        /\ r.pending = NoCall
        /\ r.store = store

\* the instants after the expiry of the entry under key k, from now on
AfterExpiry(k) ==
    { t \in {now, store[k].expiresAt + 1} : t >= now /\ t > store[k].expiresAt }

\* C35 (as stated): a cache hit is read-only: serving a cached prediction
\* changes neither its value nor its expiry, so a prediction stored at time
\* t is never served after t + 300 s, and the first identical request after
\* that makes a new model call.  Stated for the prediction just stored by
\* the request ev.body and for every prediction in the cache.
C35_HitIsReadOnlyThenNewCall ==
    /\ \A body \in PredictRequests :
            (PredictsText(body) /\ CacheHit(store, KeyOfPredict(body), now)) =>
                \A t \in {now, store[KeyOfPredict(body)].expiresAt} :
                    HitIsReadOnly(body, t)
    /\ JustStored =>
            /\ store[ev.call.key].expiresAt = now + 300 * 1000
            /\ LET r == predictRoute(store, now + 300 * 1000 + 1, ev.body)
               IN  /\ ~r.reply.sent
                   /\ r.pending.fn # "none"
                   /\ r.pending.key = ev.call.key

\* C35 (amended): a cache hit is read-only: serving a cached prediction
\* changes neither its value nor its expiry, so a prediction stored at time
\* t is never served after t + 300 s; the first identical request after that
\* makes a new model call, unless it is a bridge request whose session has
\* expired by then, which is answered 404 without a model call.
C35_HitIsReadOnlyThenMiss ==
    /\ \A body \in PredictRequests :
            (PredictsText(body) /\ CacheHit(store, KeyOfPredict(body), now)) =>
                \A t \in {now, store[KeyOfPredict(body)].expiresAt} :
                    HitIsReadOnly(body, t)
    /\ \A body \in PredictRequests :
            (PredictsText(body) /\ KeyOfPredict(body) \in DOMAIN store) =>
                \A t \in AfterExpiry(KeyOfPredict(body)) :
                    LET r == predictRoute(store, t, body)
                    IN  IF body.mode = Bridge
                           /\ ~CacheHit(store, SessionKey(body.sessionId), t)
                        THEN r.reply = NotFound /\ r.pending = NoCall
                        ELSE /\ ~r.reply.sent
                             /\ r.pending.fn # "none"
                             /\ r.pending.key = KeyOfPredict(body)
    /\ JustStored => store[ev.call.key].expiresAt = now + 300 * 1000

\* a prediction expired a millisecond ago, and the identical request that
\* arrived now was not served from the cache: it awaits a new model call
C35_Witness ==
    /\ ev.op = "predict" /\ ev.phase = "begin"
    /\ ~ev.reply.sent
    /\ ev.call.fn = "getWordSuggestion"
    /\ calls = 2 /\ ev.id = 2
    /\ now = 300 * 1000 + 1
    /\ DOMAIN inflight = {2}

\* C36: every phrase returned by /next is whitespace-trimmed and does not
\* end in any of the characters . , ! ?, whatever run of punctuation the
\* model appended.  Stated for the phrase getNextSuggestion just returned.
C36_NextPhraseEndsWithoutPunctuation ==
    ev.op = "getNextSuggestion" =>
        LET phrase == ev.result.value.phrase
        IN  /\ phrase = Trim(phrase)
            /\ phrase # <<>> => phrase[Len(phrase)] \notin TrailingPunctuation

ExpiryInstant(k) == lastSet[k].at + lastSet[k].ttlSeconds * 1000

\* C38: expiry is strict: get(k) treats an entry as expired only when the
\* clock is greater than set-time + ttlSeconds*1000 ms, so a get at exactly
\* the expiry instant still returns the value, and set(k, v, 0) followed by
\* get(k) at the same clock reading returns v rather than absent.  Stated
\* for the get just made on a key that was set and not deleted since.
C38_ExpiryIsStrict ==
    (ev.op = "get" /\ ev.key \in DOMAIN lastSet) =>
        /\ ev.result = Null <=> now > ExpiryInstant(ev.key)
        /\ now = ExpiryInstant(ev.key) => ev.result = lastSet[ev.key].value
        /\ (lastSet[ev.key].ttlSeconds = 0 /\ lastSet[ev.key].at = now)
                => /\ ev.result = lastSet[ev.key].value
                   /\ ev.key \in DOMAIN store

\* set(k, 'v', 0) was followed by get(k) at the same clock reading, which
\* returned 'v' and left the entry in place
C38_Witness ==
    /\ ev.op = "get"
    /\ ev.key \in DOMAIN lastSet
    /\ lastSet[ev.key].ttlSeconds = 0
    /\ lastSet[ev.key].at = now
    /\ now > 0
    /\ ev.result = <<"v">>
    /\ ev.key \in DOMAIN store

====
